---- MODULE Spec2Model ----
(***************************************************************************)
(* Workspace resolution of the VSCode helper (src/src/vscode-controller.ts).*)
(*                                                                         *)
(* A JavaScript string is a sequence of one-character strings, so that     *)
(* startsWith, includes, split, trim, toLowerCase and replace are computed *)
(* character by character, the way the code computes them.                 *)
(***************************************************************************)
EXTENDS Integers, Sequences, FiniteSets, TLC

VARIABLES world, now, workspaceCache, ret, arrays, slotArray, calls

vars == <<world, now, workspaceCache, ret, arrays, slotArray, calls>>

(***************************************************************************)
(* String primitives                                                       *)
(***************************************************************************)

\* String.prototype.startsWith
StartsWith(s, p) == Len(p) <= Len(s) /\ SubSeq(s, 1, Len(p)) = p

\* String.prototype.indexOf, 1-based; 0 when sub does not occur in s
IndexOf(s, sub) ==
    LET hits == {i \in 1..(Len(s) - Len(sub) + 1) : SubSeq(s, i, i + Len(sub) - 1) = sub}
    IN  IF hits = {} THEN 0 ELSE CHOOSE i \in hits : \A j \in hits : i <= j

\* String.prototype.includes
Includes(s, sub) == IndexOf(s, sub) # 0

UpperToLower ==
    [A |-> "a", B |-> "b", C |-> "c", D |-> "d", E |-> "e", F |-> "f", G |-> "g",
     H |-> "h", I |-> "i", J |-> "j", K |-> "k", L |-> "l", M |-> "m", N |-> "n",
     O |-> "o", P |-> "p", Q |-> "q", R |-> "r", S |-> "s", T |-> "t", U |-> "u",
     V |-> "v", W |-> "w", X |-> "x", Y |-> "y", Z |-> "z"]

\* String.prototype.toLowerCase
ToLowerCase(s) ==
    [i \in 1..Len(s) |-> IF s[i] \in DOMAIN UpperToLower THEN UpperToLower[s[i]] ELSE s[i]]

\* the characters the regular expression class \s and trim() treat as white space
IsSpace(c) == c \in {" ", "\t", "\n", "\r"}

RECURSIVE TrimStart(_)
TrimStart(s) == IF s # <<>> /\ IsSpace(Head(s)) THEN TrimStart(Tail(s)) ELSE s

RECURSIVE TrimEnd(_)
TrimEnd(s) ==
    IF s # <<>> /\ IsSpace(s[Len(s)]) THEN TrimEnd(SubSeq(s, 1, Len(s) - 1)) ELSE s

\* String.prototype.trim
Trim(s) == TrimEnd(TrimStart(s))

\* String.prototype.split with a non-empty string separator
RECURSIVE Split(_, _)
Split(s, sep) ==
    LET i == IndexOf(s, sep)
    IN  IF i = 0 THEN <<s>>
        ELSE <<SubSeq(s, 1, i - 1)>> \o Split(SubSeq(s, i + Len(sep), Len(s)), sep)

\* String.prototype.split(/\s+/): the separators are the maximal runs of white space
RECURSIVE SplitSpaces(_)
SplitSpaces(s) ==
    LET sp == {i \in 1..Len(s) : IsSpace(s[i])}
    IN  IF sp = {} THEN <<s>>
        ELSE LET i == CHOOSE k \in sp : \A j \in sp : k <= j
             IN  <<SubSeq(s, 1, i - 1)>> \o SplitSpaces(TrimStart(SubSeq(s, i, Len(s))))

\* Array.prototype.join
RECURSIVE Join(_, _)
Join(parts, sep) ==
    IF parts = <<>> THEN <<>>
    ELSE IF Len(parts) = 1 THEN parts[1]
    ELSE parts[1] \o sep \o Join(Tail(parts), sep)

\* Array.prototype.includes
Contains(xs, x) == \E i \in 1..Len(xs) : xs[i] = x

\* Array.prototype.slice(0, n)
Take(xs, n) == SubSeq(xs, 1, IF Len(xs) < n THEN Len(xs) ELSE n)

(***************************************************************************)
(* String literals of the source                                           *)
(***************************************************************************)

Newline == <<"\n">>
Slash == <<"/">>
TitleSeparator == <<" ","-"," ">>
VisualStudioCode == <<"V","i","s","u","a","l"," ","S","t","u","d","i","o"," ","C","o","d","e">>
CodeClass == <<"c","o","d","e",".","C","o","d","e">>
FileScheme == <<"f","i","l","e",":","/","/">>
WorkspaceStatsMarker == <<"W","o","r","k","s","p","a","c","e"," ","S","t","a","t","s",":">>
FolderOpen == <<"F","o","l","d","e","r"," ","(">>
DefaultHome == <<"/","h","o","m","e","/","u","b","u","n","t","u">>
RootDir == <<"/">>

(***************************************************************************)
(* Title parser                                                            *)
(***************************************************************************)

NoMatch == [found |-> FALSE, value |-> <<>>]
Match(v) == [found |-> TRUE, value |-> v]

\* the parser taking the first fragment of the title whatever their number
extractFirstFragment(windowTitle) ==
    LET parts == Split(windowTitle, TitleSeparator)
    IN  IF Len(parts) >= 2 THEN Match(Trim(parts[1])) ELSE NoMatch

\* extractWorkspaceFromTitle: the fragment before the trailing product name
extractWorkspaceFromTitle(windowTitle) ==
    LET parts == Split(windowTitle, TitleSeparator)
        withoutVSCode == SubSeq(parts, 1, Len(parts) - 1)
    IN  IF Len(parts) >= 2
        THEN IF Len(withoutVSCode) >= 2
             THEN Match(Trim(withoutVSCode[Len(withoutVSCode)]))
             ELSE Match(Trim(withoutVSCode[1]))
        ELSE NoMatch

(***************************************************************************)
(* The machine the controller runs on: what each external command prints   *)
(* and which files exist.  A world is a record                             *)
(*   wmctrl   : result of `wmctrl -l -x`                                   *)
(*   lsStore  : result of `ls .../workspaceStorage/*/workspace.json`       *)
(*   find     : result of `find .../workspaceStorage -name workspace.json` *)
(*   lsRecent : result of `ls -t .../workspaceStorage/*/workspace.json`    *)
(*   status   : result of `code --status`                                  *)
(*   exists   : the paths for which fs.access succeeds                     *)
(*   settings : what JSON.parse(readFile(~/.vscode/settings.json)) gives   *)
(*   home     : process.env.HOME                                           *)
(*   cwd      : process.cwd()                                              *)
(* The result of a command is [ok, stdout]; ok = FALSE is a rejected exec. *)
(***************************************************************************)

ExecFail == [ok |-> FALSE, stdout |-> <<>>]
ExecOk(out) == [ok |-> TRUE, stdout |-> out]

\* contents of the workspace.json files of the store, by file name:
\* valid = readFile and JSON.parse succeed, hasFolder = the object has a folder
Record(uri) == [valid |-> TRUE, hasFolder |-> TRUE, folder |-> uri]
Malformed == [valid |-> FALSE, hasFolder |-> FALSE, folder |-> <<>>]
NoFolder == [valid |-> TRUE, hasFolder |-> FALSE, folder |-> <<>>]

PathP == <<"/","h","o","m","e","/","u","b","u","n","t","u","/","p">>
PathP1 == <<"/","h","o","m","e","/","u","b","u","n","t","u","/","p","1">>
PathQ == <<"/","s","r","v","/","Q">>
PathSrvW == <<"/","s","r","v","/","w">>
PathGone == <<"/","o","l","d","/","q">>
RemoteUri == <<"v","s","c","o","d","e","-","r","e","m","o","t","e",":","/","/","h","/","p">>

FileA == <<"a">>
FileB == <<"b">>
FileC == <<"c">>
FileD == <<"d">>
FileE == <<"e">>
FileF == <<"f">>
FileG == <<"g">>
FileH == <<"h">>

StoreFiles ==
    (FileA :> Record(FileScheme \o PathP)) @@
    (FileB :> Record(FileScheme \o PathP1)) @@
    (FileC :> Record(FileScheme \o PathP1)) @@
    (FileD :> Record(FileScheme \o PathQ)) @@
    (FileE :> Malformed) @@
    (FileF :> Record(RemoteUri)) @@
    (FileG :> Record(FileScheme \o PathGone)) @@
    (FileH :> Record(FileScheme \o PathSrvW))

\* JSON.parse(await readFile(workspaceFile, 'utf8')); a file that is not in the
\* store cannot be read
ReadRecord(workspaceFile) ==
    IF workspaceFile \in DOMAIN StoreFiles THEN StoreFiles[workspaceFile] ELSE Malformed

(***************************************************************************)
(* Recent-store record parser                                              *)
(***************************************************************************)

\* workspaceData.folder && workspaceData.folder.startsWith('file://');
\* path = folder.replace('file://', ''); name = path.split('/').pop() || ''
ParseRecord(workspaceData) ==
    IF workspaceData.valid /\ workspaceData.hasFolder /\ workspaceData.folder # <<>>
       /\ StartsWith(workspaceData.folder, FileScheme)
    THEN LET workspacePath ==
                 SubSeq(workspaceData.folder, Len(FileScheme) + 1, Len(workspaceData.folder))
             segments == Split(workspacePath, Slash)
         IN  [ok |-> TRUE, path |-> workspacePath, name |-> segments[Len(segments)]]
    ELSE [ok |-> FALSE, path |-> <<>>, name |-> <<>>]

\* fs.access: the path was there at the start or has been created since
Access(w, path) == path \in w.exists \cup w.created

\* the bidirectional case-insensitive substring test of the window correlation
\* and of the named lookups
NameMatches(a, b) ==
    \/ Includes(ToLowerCase(a), ToLowerCase(b))
    \/ Includes(ToLowerCase(b), ToLowerCase(a))

(***************************************************************************)
(* Index builder, fast path                                                *)
(***************************************************************************)

\* lines of `wmctrl -l -x` that belong to the editor
IsVSCodeWindow(line) == Includes(line, CodeClass) /\ Includes(line, VisualStudioCode)

\* the loop over vscodeWindows: the title is every column from the fifth on
RECURSIVE CollectWindowNames(_, _)
CollectWindowNames(lines, windowWorkspaceNames) ==
    IF lines = <<>> THEN windowWorkspaceNames
    ELSE LET window == Head(lines)
             parts == SplitSpaces(window)
             windowTitle == Join(SubSeq(parts, 5, Len(parts)), <<" ">>)
             workspaceName == extractWorkspaceFromTitle(windowTitle)
             push == /\ IsVSCodeWindow(window)
                     /\ Len(parts) > 4
                     /\ workspaceName.found
                     /\ workspaceName.value # <<>>
                     /\ ~Contains(windowWorkspaceNames, workspaceName.value)
         IN  CollectWindowNames(Tail(lines),
                 IF push THEN Append(windowWorkspaceNames, workspaceName.value)
                 ELSE windowWorkspaceNames)

WindowWorkspaceNames(wmctrlOutput) == CollectWindowNames(Split(wmctrlOutput, Newline), <<>>)

\* the fast path accepting every parsed store record whose path exists
AcceptsExisting(w, windowWorkspaceNames, rec) == rec.ok /\ Access(w, rec.path)

\* the fast path accepting every parsed store record that matches a window name
AcceptsMatching(w, windowWorkspaceNames, rec) ==
    /\ rec.ok
    /\ \E i \in 1..Len(windowWorkspaceNames) : NameMatches(windowWorkspaceNames[i], rec.name)

\* whether the fast path accepts a parsed store record
AcceptsRecord(w, windowWorkspaceNames, rec) ==
    /\ rec.ok
    /\ \E i \in 1..Len(windowWorkspaceNames) : NameMatches(windowWorkspaceNames[i], rec.name)
    /\ Access(w, rec.path)

\* the loop over workspaceFiles of the fast path
RECURSIVE CollectOpenWorkspaces(_, _, _, _)
CollectOpenWorkspaces(w, workspaceFiles, windowWorkspaceNames, workspaces) ==
    IF workspaceFiles = <<>> THEN workspaces
    ELSE LET rec == ParseRecord(ReadRecord(Head(workspaceFiles)))
         IN  CollectOpenWorkspaces(w, Tail(workspaceFiles), windowWorkspaceNames,
                 IF AcceptsRecord(w, windowWorkspaceNames, rec)
                 THEN Append(workspaces, [name |-> rec.name, path |-> rec.path])
                 ELSE workspaces)

\* the body of the try block of getOpenWorkspacesFast once both commands have run
FastIndex(w) ==
    LET windowWorkspaceNames == WindowWorkspaceNames(w.wmctrl.stdout)
        storageFiles == w.lsStore.stdout
    IN  IF Trim(storageFiles) # <<>>
        THEN CollectOpenWorkspaces(w, Split(Trim(storageFiles), Newline),
                                   windowWorkspaceNames, <<>>)
        ELSE <<>>

(***************************************************************************)
(* Status-line parser and slow path                                        *)
(***************************************************************************)

\* line.match(/^\s*\|?\s*Folder \(([^)]+)\):/): the captured folder name
FolderMatch(line) ==
    LET s1 == TrimStart(line)
        s2 == IF s1 # <<>> /\ Head(s1) = "|" THEN Tail(s1) ELSE s1
        s3 == TrimStart(s2)
        rest == SubSeq(s3, Len(FolderOpen) + 1, Len(s3))
        close == IndexOf(rest, <<")">>)
    IN  IF /\ StartsWith(s3, FolderOpen)
           /\ close >= 2
           /\ close < Len(rest)
           /\ rest[close + 1] = ":"
        THEN Match(SubSeq(rest, 1, close - 1))
        ELSE NoMatch

\* the fixed search patterns of findWorkspacePathByName, as path segments
Star == <<"*">>
SearchPatterns(workspaceName) ==
    << <<<<>>, <<"h","o","m","e">>, <<"u","b","u","n","t","u">>,
         <<"p","r","o","j","e","c","t","s">>, Star, Star, workspaceName>>,
       <<<<>>, <<"h","o","m","e">>, <<"u","b","u","n","t","u">>,
         <<"p","r","o","j","e","c","t","s">>, Star, workspaceName>>,
       <<<<>>, <<"h","o","m","e">>, <<"u","b","u","n","t","u">>, workspaceName>> >>

\* the order in which ls lists names
Collation ==
    <<".","/","0","1","2","A","a","b","c","d","e","g","h","j","m","n","o","P","p","Q","q",
      "r","s","t","u","v","w","x","y","z">>
Rank(c) == IF \E i \in 1..Len(Collation) : Collation[i] = c
           THEN CHOOSE i \in 1..Len(Collation) : Collation[i] = c
           ELSE Len(Collation) + 1

RECURSIVE LexLess(_, _)
LexLess(a, b) ==
    IF a = <<>> THEN b # <<>>
    ELSE IF b = <<>> THEN FALSE
    ELSE IF Head(a) = Head(b) THEN LexLess(Tail(a), Tail(b))
    ELSE Rank(Head(a)) < Rank(Head(b))

\* the paths a shell pattern expands to: * is any entry that is not hidden
GlobMatches(w, pattern) ==
    {p \in w.exists :
        LET segs == Split(p, Slash)
        IN  /\ Len(segs) = Len(pattern)
            /\ \A i \in 1..Len(segs) :
                   IF pattern[i] = Star
                   THEN segs[i] # <<>> /\ Head(segs[i]) # "."
                   ELSE segs[i] = pattern[i]}

\* stdout of `ls -d <pattern> 2>/dev/null | head -1`
ListFirst(w, pattern) ==
    LET found == GlobMatches(w, pattern)
    IN  IF found = {} THEN <<>>
        ELSE (CHOOSE p \in found : \A q \in found : q = p \/ LexLess(p, q)) \o Newline

\* the loop over the files `find` printed ending at the first file that is not
\* a folder record
RECURSIVE FindInStoreAborting(_, _, _)
FindInStoreAborting(w, workspaceFiles, workspaceName) ==
    IF workspaceFiles = <<>> THEN NoMatch
    ELSE LET rec == ParseRecord(ReadRecord(Head(workspaceFiles)))
         IN  IF ~rec.ok THEN NoMatch
             ELSE IF rec.name = workspaceName /\ Access(w, rec.path)
             THEN Match(rec.path)
             ELSE FindInStoreAborting(w, Tail(workspaceFiles), workspaceName)

\* the loop over the files `find` printed: the first record whose last path
\* segment is the name and whose path exists
RECURSIVE FindInStore(_, _, _)
FindInStore(w, workspaceFiles, workspaceName) ==
    IF workspaceFiles = <<>> THEN NoMatch
    ELSE LET rec == ParseRecord(ReadRecord(Head(workspaceFiles)))
         IN  IF rec.ok /\ rec.name = workspaceName /\ Access(w, rec.path)
             THEN Match(rec.path)
             ELSE FindInStore(w, Tail(workspaceFiles), workspaceName)

\* a path found, or none, with the commands run on the way, in order
Probed(result, probed) == [found |-> result.found, value |-> result.value, probed |-> probed]
PatternProbe(i) == IF i = 1 THEN "ls 1" ELSE IF i = 2 THEN "ls 2" ELSE "ls 3"

\* the loop over searchPaths, from pattern i on, after the commands in probed
RECURSIVE FindBySearch(_, _, _, _)
FindBySearch(w, workspaceName, i, probed) ==
    IF i > Len(SearchPatterns(workspaceName)) THEN Probed(NoMatch, probed)
    ELSE LET stdout == ListFirst(w, SearchPatterns(workspaceName)[i])
         IN  IF Trim(stdout) # <<>> /\ Access(w, Trim(stdout))
             THEN Probed(Match(Trim(stdout)), Append(probed, PatternProbe(i)))
             ELSE FindBySearch(w, workspaceName, i + 1, Append(probed, PatternProbe(i)))

\* what the loop over the files of `find` gives
StoreSearched(w, workspaceName) ==
    IF w.find.ok
    THEN FindInStore(w, Split(Trim(w.find.stdout), Newline), workspaceName)
    ELSE NoMatch

\* the search patterns tried before the store
findWorkspacePathByNamePatternsFirst(w, workspaceName) ==
    IF FindBySearch(w, workspaceName, 1, <<>>).found
    THEN FindBySearch(w, workspaceName, 1, <<>>)
    ELSE Probed(StoreSearched(w, workspaceName),
                FindBySearch(w, workspaceName, 1, <<>>).probed \o <<"find">>)

\* findWorkspacePathByName: the store first, the search patterns second
findWorkspacePathByName(w, workspaceName) ==
    IF StoreSearched(w, workspaceName).found
    THEN Probed(StoreSearched(w, workspaceName), <<"find">>)
    ELSE FindBySearch(w, workspaceName, 1, <<"find">>)

\* the loop over the lines of the status text
RECURSIVE ParseStatusLines(_, _, _, _)
ParseStatusLines(w, lines, inWorkspaceStats, workspaces) ==
    IF lines = <<>> THEN workspaces
    ELSE LET line == Head(lines)
             folderMatch == FolderMatch(line)
             workspacePath == findWorkspacePathByName(w, folderMatch.value)
         IN  IF Includes(line, WorkspaceStatsMarker)
             THEN ParseStatusLines(w, Tail(lines), TRUE, workspaces)
             ELSE IF ~inWorkspaceStats
             THEN ParseStatusLines(w, Tail(lines), FALSE, workspaces)
             ELSE IF folderMatch.found /\ workspacePath.found
             THEN ParseStatusLines(w, Tail(lines), TRUE,
                      Append(workspaces,
                             [name |-> folderMatch.value, path |-> workspacePath.value]))
             ELSE ParseStatusLines(w, Tail(lines), TRUE, workspaces)

\* the parser taking folder lines from anywhere in the text
parseVSCodeStatusUnscoped(w, statusOutput) ==
    ParseStatusLines(w, Split(statusOutput, Newline), TRUE, <<>>)

\* parseVSCodeStatus
parseVSCodeStatus(w, statusOutput) ==
    ParseStatusLines(w, Split(statusOutput, Newline), FALSE, <<>>)

(***************************************************************************)
(* Results of a call: a returned value, or a thrown error                   *)
(***************************************************************************)

NoError == [prefix |-> "", message |-> "", name |-> <<>>, available |-> <<>>]
Return(v) == [threw |-> FALSE, value |-> v, error |-> NoError]
Throw(e) == [threw |-> TRUE, value |-> <<>>, error |-> e]

\* new Error(message), and the 'not found' error of the named lookups:
\* `Workspace '${name}' not found. Available workspaces: ${names.join(', ')}`
Error(message) == [prefix |-> "", message |-> message, name |-> <<>>, available |-> <<>>]

\* throw new Error(`${prefix}: ${error.message}`) of a handler's catch block
Rethrow(prefix, e) == [e EXCEPT !.prefix = prefix]

\* parseVSCodeStatusSlow: execAsync('code --status') is not guarded
parseVSCodeStatusSlow(w) ==
    IF w.status.ok THEN Return(parseVSCodeStatus(w, w.status.stdout))
    ELSE Throw(Error("Command failed: code --status"))

(***************************************************************************)
(* Cache layer and index builder                                           *)
(***************************************************************************)

CACHE_DURATION == 5000

NoCache == [present |-> FALSE, data |-> <<>>, timestamp |-> 0]
CacheEntry(data, timestamp) == [present |-> TRUE, data |-> data, timestamp |-> timestamp]

\* the cache test with <= in place of <: an entry aged exactly CACHE_DURATION
\* would still be served
CacheFreshInclusive(cache, t) == cache.present /\ t - cache.timestamp <= CACHE_DURATION

\* the test that guards the cached data
CacheFresh(cache, t) == cache.present /\ t - cache.timestamp < CACHE_DURATION

\* what the slow path leaves in the cache slot
CacheAfterSlow(cache, data, t) == cache

\* what the fast path leaves in the cache slot
CacheAfterFast(cache, data, t) == CacheEntry(data, t)

\* the body of getOpenWorkspacesFast past the cache test: the try block (fast
\* path) or its catch block (slow path); probes = the signal readers invoked
BuildIndex(w) ==
    IF w.wmctrl.ok /\ w.lsStore.ok
    THEN [result |-> Return(FastIndex(w)), fastPath |-> TRUE,
          probes |-> <<"wmctrl", "lsStore">>]
    ELSE [result |-> parseVSCodeStatusSlow(w), fastPath |-> FALSE,
          probes |-> (IF w.wmctrl.ok THEN <<"wmctrl", "lsStore">> ELSE <<"wmctrl">>)
                     \o <<"status">>]

(***************************************************************************)
(* Active-workspace selector                                               *)
(***************************************************************************)

Indicators ==
    << <<".","g","i","t">>,
       <<"p","a","c","k","a","g","e",".","j","s","o","n">>,
       <<"C","a","r","g","o",".","t","o","m","l">>,
       <<"g","o",".","m","o","d">>,
       <<"p","o","m",".","x","m","l">>,
       <<"p","y","p","r","o","j","e","c","t",".","t","o","m","l">>,
       <<".","v","s","c","o","d","e">> >>
DotVSCode == <<".","v","s","c","o","d","e">>
SettingsJson == <<"s","e","t","t","i","n","g","s",".","j","s","o","n">>

\* path.join of a normalised absolute directory and a name
PathJoin(dir, name) == IF dir = RootDir THEN dir \o name ELSE dir \o Slash \o name

\* path.dirname of a normalised absolute path
Dirname(path) ==
    LET segs == Split(path, Slash)
    IN  IF Len(segs) <= 2 THEN RootDir ELSE Join(SubSeq(segs, 1, Len(segs) - 1), Slash)

\* process.env.HOME || '/home/ubuntu'
HomeDir(w) == IF w.home # <<>> THEN w.home ELSE DefaultHome

\* the home directory's .vscode counting as soon as it holds a settings.json
HomeSettingsExist(w, currentDir) ==
    Access(w, PathJoin(PathJoin(currentDir, DotVSCode), SettingsJson))

\* the home directory's .vscode counts only with a settings.json that parses
\* and has at least one key
HomeSettingsCount(w, currentDir) ==
    /\ Access(w, PathJoin(PathJoin(currentDir, DotVSCode), SettingsJson))
    /\ w.settings.parses
    /\ w.settings.keys # 0

\* whether the loop over indicators returns currentDir at this indicator
IndicatorFound(w, currentDir, indicator) ==
    /\ Access(w, PathJoin(currentDir, indicator))
    /\ (indicator = DotVSCode /\ currentDir = HomeDir(w)) => HomeSettingsCount(w, currentDir)

\* the walk returning the directory nearest to the root that has an indicator
RECURSIVE WalkUpOutermost(_, _)
WalkUpOutermost(w, currentDir) ==
    IF currentDir = RootDir THEN NoMatch
    ELSE IF Dirname(currentDir) # currentDir /\ WalkUpOutermost(w, Dirname(currentDir)).found
    THEN WalkUpOutermost(w, Dirname(currentDir))
    ELSE IF \E i \in 1..Len(Indicators) : IndicatorFound(w, currentDir, Indicators[i])
    THEN Match(currentDir)
    ELSE NoMatch

\* Approach 2: the walk from currentDir towards the root
RECURSIVE WalkUp(_, _)
WalkUp(w, currentDir) ==
    IF currentDir = RootDir THEN NoMatch
    ELSE IF \E i \in 1..Len(Indicators) : IndicatorFound(w, currentDir, Indicators[i])
    THEN Match(currentDir)
    ELSE IF Dirname(currentDir) = currentDir THEN NoMatch
    ELSE WalkUp(w, Dirname(currentDir))

\* Approach 3: the loop over the newest store files
RECURSIVE FirstRecent(_, _)
FirstRecent(w, workspaceFiles) ==
    IF workspaceFiles = <<>> THEN NoMatch
    ELSE LET rec == ParseRecord(ReadRecord(Head(workspaceFiles)))
         IN  IF rec.ok /\ Access(w, rec.path) THEN Match(rec.path)
             ELSE FirstRecent(w, Tail(workspaceFiles))

RecentLimit == 3

\* approach 3 going through every listed store file
RecentWorkspaceUnlimited(w) ==
    IF w.lsRecent.ok
    THEN FirstRecent(w, Split(Trim(w.lsRecent.stdout), Newline))
    ELSE NoMatch

\* Approach 3: `ls -t` of the store, the first three lines
RecentWorkspace(w) ==
    IF w.lsRecent.ok
    THEN FirstRecent(w, Take(Split(Trim(w.lsRecent.stdout), Newline), RecentLimit))
    ELSE NoMatch

\* Approach 1 answering with the current directory when a candidate holds it
SelectFromIndexByDir(workspaces, currentDir) ==
    IF \E i \in 1..Len(workspaces) : StartsWith(currentDir, workspaces[i].path)
    THEN currentDir
    ELSE workspaces[1].path

\* Approach 1 on a non-empty index: the first candidate whose path the current
\* directory starts with, else the first candidate
SelectFromIndex(workspaces, currentDir) ==
    LET inside == {i \in 1..Len(workspaces) : StartsWith(currentDir, workspaces[i].path)}
    IN  IF inside # {}
        THEN workspaces[CHOOSE i \in inside : \A j \in inside : i <= j].path
        ELSE workspaces[1].path

\* the value returned by getActiveVSCodeWorkspace, with the approach that gave it
Selected(path, method) == [threw |-> FALSE, path |-> path, method |-> method]

\* approaches 3 and 4 with path.dirname(process.cwd()) as the last resort
RecentOrParent(recent, cwd) ==
    IF recent.found THEN Selected(recent.value, "recent") ELSE Selected(Dirname(cwd), "cwd")

\* Approaches 3 and 4: a recent workspace, else process.cwd()
RecentOrCwd(recent, cwd) ==
    IF recent.found THEN Selected(recent.value, "recent") ELSE Selected(cwd, "cwd")

\* Approach 2 given the outcome of the walk, then approaches 3 and 4
IndicatorOrLater(w, walk) ==
    IF walk.found THEN Selected(walk.value, "indicator")
    ELSE RecentOrCwd(RecentWorkspace(w), w.cwd)

\* Approaches 2 to 4, taken when approach 1 gave nothing
SelectWithoutIndex(w) == IndicatorOrLater(w, WalkUp(w, w.cwd))

(***************************************************************************)
(* Bounded inputs                                                          *)
(***************************************************************************)

\* longest listing of store files in the worlds of the fast path
MaxStoreLen == 2
\* the clock advances in steps of TickMs up to MaxNow
TickMs == 2500
MaxNow == 5000

\* the sequences without repetition of at most n elements of S
Listings(S, n) ==
    {l \in UNION {[1..k -> S] : k \in 0..n} : \A i, j \in 1..Len(l) : l[i] = l[j] => i = j}

Reverse(xs) == [i \in 1..Len(xs) |-> xs[Len(xs) + 1 - i]]

\* what ls and find print for a list of files: one name per line
Printed(workspaceFiles) ==
    IF workspaceFiles = <<>> THEN <<>> ELSE Join(workspaceFiles, Newline) \o Newline

\* `ls <glob> 2>/dev/null || echo ""` prints an empty line when nothing matches
LsOrEcho(workspaceFiles) ==
    ExecOk(IF workspaceFiles = <<>> THEN Newline ELSE Printed(workspaceFiles))

\* `ls -t <glob>` fails when nothing matches
LsRecent(workspaceFiles) ==
    IF workspaceFiles = <<>> THEN ExecFail ELSE ExecOk(Printed(workspaceFiles))

\* one line of `wmctrl -l -x`: id, desktop, class, host, title
WmLine(id, class, title) ==
    id \o <<" ","0"," ">> \o class \o <<" ","h"," ">> \o title \o Newline

TitleP1 == <<"x",".","t","s">> \o TitleSeparator \o <<"p","1">> \o TitleSeparator \o VisualStudioCode
TitleQ == <<"q">> \o TitleSeparator \o VisualStudioCode
LineP1 == WmLine(<<"1">>, CodeClass, TitleP1)
LineQ == WmLine(<<"2">>, CodeClass, TitleQ)
LineOther == WmLine(<<"3">>, <<"x","t","e","r","m",".","X","T","e","r","m">>, <<"s","h">>)

\* window listings with editor windows, and one with none
WmctrlWithWindows ==
    {ExecOk(LineP1 \o LineOther), ExecOk(LineP1 \o LineQ), ExecOk(LineQ \o LineP1)}
WmctrlNoWindows == ExecOk(LineOther)

\* texts of `code --status`
StatusHeader == <<"V","e","r","s","i","o","n",":"," ","1","\n">>
StatusMarker == WorkspaceStatsMarker \o Newline
FolderLine(name) ==
    <<"|"," "," ">> \o FolderOpen \o name \o <<")",":"," ","2"," ","f","i","l","e","s","\n">>
NameP == <<"p">>
NameP1 == <<"p","1">>
NameZZ == <<"z","z">>
NameQ == <<"Q">>
StatusOutputs ==
    {ExecFail,
     ExecOk(StatusHeader),
     ExecOk(StatusHeader \o StatusMarker \o FolderLine(NameP)),
     ExecOk(StatusHeader \o StatusMarker \o FolderLine(NameP) \o Newline \o FolderLine(NameP)),
     ExecOk(FolderLine(NameP) \o StatusMarker \o FolderLine(NameP1) \o FolderLine(NameZZ)),
     ExecOk(StatusHeader \o StatusMarker \o FolderLine(NameQ) \o FolderLine(NameP1)),
     ExecOk(StatusHeader \o FolderLine(NameP1))}

CwdInP1 == PathP1 \o <<"/","s">>
CwdElsewhere == <<"/","s","r","v","/","w">>
PathW == <<"/","h","o","m","e","/","u","b","u","n","t","u","/","p","r","o","j","e","c","t","s","/","x","/","w">>

\* a file below CwdElsewhere and a file below PathP1
FileInW == CwdElsewhere \o <<"/","f">>
FileInP1 == PathP1 \o <<"/","g">>

\* the directories and files that exist in every world
BaseExists ==
    {PathP, PathP1, PathQ, PathW, CwdInP1, CwdElsewhere, DefaultHome, FileInW, FileInP1}

\* sets of project-indicator files, and the home settings they come with
GitInP1 == PathJoin(PathP1, <<".","g","i","t">>)
HomeVSCode == PathJoin(DefaultHome, DotVSCode)
HomeSettings == PathJoin(HomeVSCode, SettingsJson)
NoSettings == [parses |-> FALSE, keys |-> 0]
PackageInCwd == PathJoin(CwdInP1, <<"p","a","c","k","a","g","e",".","j","s","o","n">>)
GitInHome == PathJoin(DefaultHome, <<".","g","i","t">>)
GitAboveHome == PathJoin(Dirname(DefaultHome), <<".","g","i","t">>)
IndicatorWorlds ==
    {[files |-> {}, settings |-> NoSettings],
     [files |-> {GitInP1}, settings |-> NoSettings],
     [files |-> {HomeVSCode}, settings |-> NoSettings],
     [files |-> {HomeVSCode, HomeSettings}, settings |-> NoSettings],
     [files |-> {HomeVSCode, HomeSettings}, settings |-> [parses |-> TRUE, keys |-> 0]],
     [files |-> {HomeVSCode, HomeSettings}, settings |-> [parses |-> TRUE, keys |-> 1]],
     [files |-> {GitInP1, HomeVSCode, HomeSettings},
      settings |-> [parses |-> TRUE, keys |-> 1]],
     [files |-> {PackageInCwd, GitInP1}, settings |-> NoSettings],
     [files |-> {HomeVSCode, GitInHome}, settings |-> NoSettings],
     [files |-> {HomeVSCode, GitAboveHome}, settings |-> NoSettings],
     [files |-> {HomeVSCode, HomeSettings, GitAboveHome},
      settings |-> [parses |-> TRUE, keys |-> 0]]}

World(wmctrl, lsStore, find, lsRecent, status, exists, settings, cwd) ==
    [wmctrl |-> wmctrl, lsStore |-> lsStore, find |-> find, lsRecent |-> lsRecent,
     status |-> status, exists |-> exists, settings |-> settings,
     home |-> DefaultHome, cwd |-> cwd, created |-> {}]

\* worlds in which both fast commands run: windows and store listings vary
FastWorldsOf(windows, listings, cwds) ==
    {World(wm, LsOrEcho(l), ExecOk(Printed(l)), LsRecent(Reverse(l)), ExecFail,
           BaseExists, NoSettings, cwd) :
        wm \in windows, l \in listings, cwd \in cwds}

\* worlds in which a fast command fails: the status text and what find lists vary
SlowWorldsOf(fastCommands, finds, statuses, cwds) ==
    {World(fc[1], fc[2], find, ExecFail, status, BaseExists, NoSettings, cwd) :
        fc \in fastCommands, find \in finds, status \in statuses, cwd \in cwds}

\* worlds with no open workspace: indicators and the recent store vary
EmptyIndexWorldsOf(commands, recents, indicatorWorlds, cwds) ==
    {World(c[1], c[2], ExecFail, lsRecent, c[3],
           BaseExists \cup ind.files, ind.settings, cwd) :
        c \in commands, lsRecent \in recents, ind \in indicatorWorlds, cwd \in cwds}

\* the ways of ending with no workspace: no editor window, or both fast and
\* slow path failing, or a status text that lists no folder
EmptyIndexCommands ==
    {<<WmctrlNoWindows, LsOrEcho(<<>>), ExecFail>>,
     <<ExecFail, ExecFail, ExecFail>>,
     <<ExecFail, ExecFail, ExecOk(StatusHeader)>>}

RecentGEFA == ExecOk(Printed(<<FileG, FileE, FileF, FileA>>))

\* worlds in which the window listing runs and shows no editor window, while
\* the store has records and `code --status` lists folders
NoWindowWorldsOf(listings, statuses, cwds) ==
    {World(WmctrlNoWindows, LsOrEcho(l), ExecOk(Printed(l)), LsRecent(Reverse(l)), status,
           BaseExists, NoSettings, cwd) :
        l \in listings, status \in statuses, cwd \in cwds}

\* worlds with open workspaces and project indicators at and above the
\* current directory
IndicatedFastWorldsOf(windows, listings, cwds) ==
    {[w EXCEPT !.exists = @ \cup {PackageInCwd, GitInP1}] :
        w \in FastWorldsOf(windows, listings, cwds)}

Worlds ==
    IndicatedFastWorldsOf(WmctrlWithWindows,
                          {<<FileA, FileB>>, <<FileB, FileA>>, <<FileB, FileC>>},
                          {CwdInP1, CwdElsewhere})
    \cup FastWorldsOf(WmctrlWithWindows,
                 Listings({FileA, FileB, FileC, FileD, FileE, FileG}, MaxStoreLen),
                 {CwdInP1, PathP, CwdElsewhere})
    \cup SlowWorldsOf({<<ExecFail, ExecFail>>, <<ExecOk(LineP1), ExecFail>>},
                      {ExecFail, ExecOk(<<>>), ExecOk(Printed(<<FileA, FileB>>)),
                       ExecOk(Printed(<<FileE, FileC>>)),
                       ExecOk(Printed(<<FileE, FileF, FileD, FileB>>))},
                      StatusOutputs, {CwdInP1, CwdElsewhere})
    \cup EmptyIndexWorldsOf(EmptyIndexCommands,
                            {ExecFail, ExecOk(<<>>), RecentGEFA,
                             ExecOk(Printed(<<FileE, FileB>>))},
                            IndicatorWorlds, {CwdInP1, DefaultHome, CwdElsewhere})
    \cup NoWindowWorldsOf({<<FileA>>, <<FileA, FileB>>}, StatusOutputs, {CwdElsewhere})

\* the worlds in which every handler is exercised
CoreWorlds ==
    FastWorldsOf({ExecOk(LineP1 \o LineQ)},
                 {<<>>, <<FileA, FileB>>, <<FileB, FileA>>, <<FileB, FileC>>,
                  <<FileD, FileA>>, <<FileE, FileB>>},
                 {CwdInP1, CwdElsewhere})
    \cup SlowWorldsOf({<<ExecFail, ExecFail>>},
                      {ExecFail, ExecOk(Printed(<<FileA, FileB>>))},
                      StatusOutputs, {CwdInP1})
    \cup EmptyIndexWorldsOf(EmptyIndexCommands, {ExecFail, RecentGEFA},
                            {[files |-> {}, settings |-> NoSettings],
                             [files |-> {GitInP1}, settings |-> NoSettings]},
                            {CwdInP1})

\* names asked of the named lookups
LookupNames == {<<"p">>, <<"P","1">>, <<"1">>, <<"z","z">>}

\* what focusWorkspace meets once its target is chosen: the result of `wmctrl -l`,
\* of `wmctrl -i -a <id>` and of `code "<path>"`
FocusInput(wmctrlList, activateOk, codeOk) ==
    [wmctrlList |-> wmctrlList, activateOk |-> activateOk, codeOk |-> codeOk]
WmctrlListP1 == ExecOk(<<"1"," ","0"," ","h"," ">> \o TitleP1 \o Newline)
FocusInputs ==
    {FocusInput(ExecFail, FALSE, TRUE),
     FocusInput(ExecOk(<<"3"," ","0"," ","h"," ","s","h","\n">>), FALSE, FALSE),
     FocusInput(WmctrlListP1, TRUE, TRUE),
     FocusInput(WmctrlListP1, FALSE, TRUE)}

(***************************************************************************)
(* The index builder and the selector's fallbacks depend on the world      *)
(* alone, so each is computed once per world.                              *)
(***************************************************************************)

BuildIndexOf == [w \in Worlds |-> BuildIndex(w)]
SelectWithoutIndexOf == [w \in Worlds |-> SelectWithoutIndex(w)]

\* the files the controller creates (CreatePaths, under the directory the
\* process was started in) are neither workspace folders nor indicators, so the
\* tables are read at the world as it was when the process started
AsStarted(w) == [w EXCEPT !.created = {}]

\* What a call of getOpenWorkspacesFast leaves:
\*   result = what the call returns or throws, cache = the slot afterwards,
\*   probes = the signal readers invoked, in order, served = answered from the cache,
\*   age = Date.now() - timestamp of the entry the call found (-1: empty slot)

\* the cached data returned as they are
Served(cache, t) ==
    [result |-> Return(cache.data), cache |-> cache, probes |-> <<>>, served |-> TRUE,
     age |-> t - cache.timestamp]

\* the outcome of a build: only the fast path stores its result in the slot
Rebuilt(built, cache, t) ==
    [result |-> built.result,
     cache |-> IF built.result.threw THEN cache
               ELSE IF built.fastPath THEN CacheAfterFast(cache, built.result.value, t)
               ELSE CacheAfterSlow(cache, built.result.value, t),
     probes |-> built.probes, served |-> FALSE,
     age |-> IF cache.present THEN t - cache.timestamp ELSE -1]

\* getOpenWorkspacesFast at time t with the cache slot holding cache
getOpenWorkspacesFast(w, cache, t) ==
    IF CacheFresh(cache, t) THEN Served(cache, t) ELSE Rebuilt(BuildIndexOf[AsStarted(w)], cache, t)

\* the selector without the try/catch around approach 1: a listing that threw
\* ends the resolution
SelectActiveUnguarded(w, result) ==
    IF result.threw THEN [threw |-> TRUE, path |-> <<>>, method |-> "none"]
    ELSE IF Len(result.value) > 0
    THEN Selected(SelectFromIndex(result.value, w.cwd), "index")
    ELSE SelectWithoutIndexOf[AsStarted(w)]

\* the selection once getOpenWorkspacesFast has returned or thrown: a throw is
\* caught by the inner try block and the fallbacks are taken
SelectActive(w, result) ==
    IF ~result.threw /\ Len(result.value) > 0
    THEN Selected(SelectFromIndex(result.value, w.cwd), "index")
    ELSE SelectWithoutIndexOf[AsStarted(w)]

\* what a resolution leaves: path and method of the selection, the call of
\* getOpenWorkspacesFast it made, and the cache slot afterwards
Resolved(sel, fast) ==
    [threw |-> sel.threw, path |-> sel.path, method |-> sel.method,
     fast |-> fast, cache |-> fast.cache]

\* the resolution given what its call of getOpenWorkspacesFast gave
ResolveWith(w, fast) == Resolved(SelectActive(w, fast.result), fast)

\* getActiveVSCodeWorkspace at time t
getActiveVSCodeWorkspace(w, cache, t) == ResolveWith(w, getOpenWorkspacesFast(w, cache, t))

(***************************************************************************)
(* Named lookup                                                            *)
(***************************************************************************)

NoWorkspace == [found |-> FALSE, name |-> <<>>, path |-> <<>>]

\* the lookup with the first half of the test alone: the entry's name must
\* contain the requested name
FindWorkspaceOneWay(workspaces, workspaceName) ==
    LET hits == {i \in 1..Len(workspaces) :
                    Includes(ToLowerCase(workspaces[i].name), ToLowerCase(workspaceName))}
    IN  IF hits = {} THEN NoWorkspace
        ELSE LET first == CHOOSE i \in hits : \A j \in hits : i <= j
             IN  [found |-> TRUE, name |-> workspaces[first].name,
                  path |-> workspaces[first].path]

\* workspaces.find(w => w.name.toLowerCase().includes(workspaceName.toLowerCase())
\*                   || workspaceName.toLowerCase().includes(w.name.toLowerCase()))
FindWorkspace(workspaces, workspaceName) ==
    LET hits == {i \in 1..Len(workspaces) : NameMatches(workspaces[i].name, workspaceName)}
    IN  IF hits = {} THEN NoWorkspace
        ELSE LET first == CHOOSE i \in hits : \A j \in hits : i <= j
             IN  [found |-> TRUE, name |-> workspaces[first].name,
                  path |-> workspaces[first].path]

\* the names in the reverse of index order
WorkspaceNameListReversed(workspaces) ==
    [i \in 1..Len(workspaces) |-> workspaces[Len(workspaces) + 1 - i].name]

\* workspaces.map(w => w.name), the list the 'not found' error carries
WorkspaceNameList(workspaces) == [i \in 1..Len(workspaces) |-> workspaces[i].name]

\* new Error(`Workspace '${workspaceName}' not found. Available workspaces: ...`)
NotFoundError(workspaceName, workspaces) ==
    [prefix |-> "", message |-> "Workspace not found", name |-> workspaceName,
     available |-> WorkspaceNameList(workspaces)]

(***************************************************************************)
(* The record of the last call: what it was (op, name), how it ended       *)
(* (threw, error, workspaces, path, method, target, status), the index its *)
(* first read of the workspace list obtained, the signal readers that read *)
(* invoked, whether it was served from the cache and how old the cache     *)
(* entry it found was, the time of the call and the window and editor      *)
(* commands it issued.                                                     *)
(***************************************************************************)

NoIndex == [built |-> FALSE, data |-> <<>>]
Index(result) == [built |-> ~result.threw, data |-> result.value]

\* the arguments of the `workspace` command: no action is "", no --get is <<>>
Args(action, active, list, get, json) ==
    [action |-> action, active |-> active, list |-> list, get |-> get, json |-> json]
NoArgs == Args("", FALSE, FALSE, <<>>, FALSE)

\* the params of a tools/call request: the tool name and whether an arguments
\* object came with it
Request(name, arguments) == [name |-> name, arguments |-> arguments]
NoRequest == Request("", FALSE)

NoRet ==
    [op |-> "none", name |-> <<>>, threw |-> FALSE, error |-> NoError,
     workspaces |-> <<>>, path |-> <<>>, method |-> "none", target |-> NoWorkspace,
     status |-> "", index |-> NoIndex, probes |-> <<>>, served |-> FALSE, age |-> -1,
     at |-> 0, commands |-> <<>>, fragments |-> <<>>, title |-> <<>>, parsed |-> NoMatch,
     root |-> <<>>, output |-> <<>>, argv |-> NoArgs, exit |-> -1, printed |-> "none",
     request |-> NoRequest, tools |-> <<>>, lines |-> <<>>,
     resolved |-> Probed(NoMatch, <<>>), second |-> NoIndex, runs |-> <<>>]

Call(op, name, fast, t) ==
    [NoRet EXCEPT !.op = op, !.name = name, !.index = Index(fast.result),
                  !.probes = fast.probes, !.served = fast.served, !.age = fast.age,
                  !.at = t]

Failed(call, prefix, e) == [call EXCEPT !.threw = TRUE, !.error = Rethrow(prefix, e)]

(***************************************************************************)
(* Handlers                                                                *)
(***************************************************************************)

\* getAllWorkspaces, given what its call of getOpenWorkspacesFast gave
AllWorkspacesResult(call, fast) ==
    IF fast.result.threw THEN Failed(call, "Failed to get workspaces", fast.result.error)
    ELSE [call EXCEPT !.workspaces = fast.result.value]

GetAllWorkspacesWith(fast) ==
    /\ workspaceCache' = fast.cache
    /\ ret' = AllWorkspacesResult(Call("getAllWorkspaces", <<>>, fast, now), fast)
    /\ UNCHANGED <<world, now, arrays, slotArray, calls>>

GetAllWorkspaces == GetAllWorkspacesWith(getOpenWorkspacesFast(world, workspaceCache, now))

\* getActiveWorkspace and getActiveVSCodeWorkspacePath, given the resolution
ActiveWorkspaceResult(call, active) ==
    IF active.threw THEN Failed(call, "Failed to get active workspace", Error("unknown"))
    ELSE [call EXCEPT !.path = active.path, !.method = active.method]

GetActiveWorkspaceWith(active) ==
    /\ workspaceCache' = active.cache
    /\ ret' = ActiveWorkspaceResult(Call("getActiveWorkspace", <<>>, active.fast, now), active)
    /\ UNCHANGED <<world, now, arrays, slotArray, calls>>

GetActiveWorkspace ==
    GetActiveWorkspaceWith(getActiveVSCodeWorkspace(world, workspaceCache, now))

\* the start of every named lookup: the list is read, the name is looked up;
\* found = the handler goes on with targetWorkspace
Lookup(prefix, call, workspaceName, fast, targetWorkspace) ==
    IF fast.result.threw
    THEN [found |-> FALSE, ret |-> Failed(call, prefix, fast.result.error)]
    ELSE IF ~targetWorkspace.found
    THEN [found |-> FALSE,
          ret |-> Failed(call, prefix, NotFoundError(workspaceName, fast.result.value))]
    ELSE [found |-> TRUE, ret |-> [call EXCEPT !.target = targetWorkspace]]

NamedLookup(op, prefix, workspaceName, fast) ==
    Lookup(prefix, Call(op, workspaceName, fast, now), workspaceName, fast,
           FindWorkspace(fast.result.value, workspaceName))

\* getWorkspaceInfo past the lookup: the status compares the active path with
\* the target's; the file count is not part of the result record
WorkspaceInfoResult(call, active) ==
    [call EXCEPT !.path = active.path, !.method = active.method,
                 !.status = IF active.path = call.target.path THEN "active" ELSE "open"]

GetWorkspaceInfoFound(fast, looked, active) ==
    /\ workspaceCache' = IF looked.found THEN active.cache ELSE fast.cache
    /\ ret' = IF looked.found THEN WorkspaceInfoResult(looked.ret, active) ELSE looked.ret
    /\ UNCHANGED <<world, now, arrays, slotArray, calls>>

GetWorkspaceInfoWith(workspaceName, fast) ==
    GetWorkspaceInfoFound(fast,
        NamedLookup("getWorkspaceInfo", "Failed to get workspace info", workspaceName, fast),
        getActiveVSCodeWorkspace(world, fast.cache, now))

\* getWorkspaceInfo(workspaceName)
GetWorkspaceInfo(workspaceName) ==
    GetWorkspaceInfoWith(workspaceName, getOpenWorkspacesFast(world, workspaceCache, now))

\* a command line handed to execAsync by a handler
Command(program, argument) == [program |-> program, argument |-> argument]

\* the editor command `code "<path>" --command workbench.action.terminal.new`
TerminalOpened(call, path, codeOk) ==
    IF codeOk THEN [call EXCEPT !.commands = <<Command("code", path)>>]
    ELSE Failed([call EXCEPT !.commands = <<Command("code", path)>>],
                "Failed to open terminal", Error("Command failed: code"))

OpenTerminalFound(fast, looked, codeOk) ==
    /\ workspaceCache' = fast.cache
    /\ ret' = IF looked.found THEN TerminalOpened(looked.ret, looked.ret.target.path, codeOk)
              ELSE looked.ret
    /\ UNCHANGED <<world, now, arrays, slotArray, calls>>

OpenTerminalNamedWith(workspaceName, fast, codeOk) ==
    OpenTerminalFound(fast,
        NamedLookup("openTerminalInWorkspace", "Failed to open terminal", workspaceName, fast),
        codeOk)

\* openTerminalInWorkspace(workspaceName) with a name; codeOk = the editor command
\* succeeds
OpenTerminalNamed(workspaceName, codeOk) ==
    /\ workspaceName # <<>>
    /\ OpenTerminalNamedWith(workspaceName,
                             getOpenWorkspacesFast(world, workspaceCache, now), codeOk)

OpenTerminalActiveWith(active, codeOk) ==
    /\ workspaceCache' = active.cache
    /\ ret' = TerminalOpened(
                  [Call("openTerminalInWorkspace", <<>>, active.fast, now) EXCEPT
                      !.path = active.path, !.method = active.method],
                  active.path, codeOk)
    /\ UNCHANGED <<world, now, arrays, slotArray, calls>>

\* openTerminalInWorkspace() without a name (an empty name is falsy too)
OpenTerminalActive(codeOk) ==
    OpenTerminalActiveWith(getActiveVSCodeWorkspace(world, workspaceCache, now), codeOk)

\* the lines of `wmctrl -l` that name the editor and the target workspace
RECURSIVE FocusCandidates(_, _)
FocusCandidates(lines, targetName) ==
    IF lines = <<>> THEN <<>>
    ELSE (IF Includes(Head(lines), VisualStudioCode) /\ Includes(Head(lines), targetName)
          THEN <<Head(lines)>> ELSE <<>>) \o FocusCandidates(Tail(lines), targetName)

\* Method 2 of focusWorkspace: `code "<path>"`, after the commands already issued
FocusByEditor(call, issued, codeOk) ==
    IF codeOk
    THEN [call EXCEPT !.commands = issued \o <<Command("code", call.target.path)>>,
                      !.method = "editor"]
    ELSE Failed([call EXCEPT !.commands = issued \o <<Command("code", call.target.path)>>,
                             !.method = "editor"],
                "Failed to focus workspace", Error("Command failed: code"))

\* Method 1 of focusWorkspace given the matching windows: the first one's id is
\* activated; without a window, or when a command fails, method 2
FocusByWindow(call, vscodeWindows, activateOk, codeOk) ==
    IF vscodeWindows = <<>>
    THEN FocusByEditor(call, <<Command("wmctrl -l", <<>>)>>, codeOk)
    ELSE IF activateOk
    THEN [call EXCEPT !.method = "window",
                      !.commands = <<Command("wmctrl -l", <<>>),
                                     Command("wmctrl -i -a", SplitSpaces(vscodeWindows[1])[1])>>]
    ELSE FocusByEditor(call,
                       <<Command("wmctrl -l", <<>>),
                         Command("wmctrl -i -a", SplitSpaces(vscodeWindows[1])[1])>>,
                       codeOk)

\* focusWorkspace once the target is chosen (call.target): wmctrlList is the result
\* of `wmctrl -l`, activateOk of `wmctrl -i -a <id>`, codeOk of `code "<path>"`
FocusTarget(call, wmctrlList, activateOk, codeOk) ==
    FocusByWindow(call,
                  IF wmctrlList.ok
                  THEN FocusCandidates(Split(wmctrlList.stdout, Newline), call.target.name)
                  ELSE <<>>,
                  activateOk, codeOk)

FocusWorkspaceFound(fast, looked, wmctrlList, activateOk, codeOk) ==
    /\ workspaceCache' = fast.cache
    /\ ret' = IF looked.found THEN FocusTarget(looked.ret, wmctrlList, activateOk, codeOk)
              ELSE looked.ret
    /\ UNCHANGED <<now, arrays, slotArray, calls>>

FocusWorkspaceNamedWith(workspaceName, fast, wmctrlList, activateOk, codeOk) ==
    FocusWorkspaceFound(fast,
        NamedLookup("focusWorkspace", "Failed to focus workspace", workspaceName, fast),
        wmctrlList, activateOk, codeOk)

\* focusWorkspace(workspaceName) with a name
FocusWorkspaceNamed(workspaceName, wmctrlList, activateOk, codeOk) ==
    /\ workspaceName # <<>>
    /\ FocusWorkspaceNamedWith(workspaceName,
                               getOpenWorkspacesFast(world, workspaceCache, now),
                               wmctrlList, activateOk, codeOk)
    /\ UNCHANGED world

\* the lookup by path taking an entry whose path the active path starts with
FindByPathPrefix(workspaces, path) ==
    LET hits == {i \in 1..Len(workspaces) : StartsWith(path, workspaces[i].path)}
    IN  IF hits = {} THEN NoWorkspace
        ELSE LET first == CHOOSE i \in hits : \A j \in hits : i <= j
             IN  [found |-> TRUE, name |-> workspaces[first].name,
                  path |-> workspaces[first].path]

\* workspaces.find(w => w.path === activeWorkspacePath)
FindByPath(workspaces, path) ==
    LET hits == {i \in 1..Len(workspaces) : workspaces[i].path = path}
    IN  IF hits = {} THEN NoWorkspace
        ELSE LET first == CHOOSE i \in hits : \A j \in hits : i <= j
             IN  [found |-> TRUE, name |-> workspaces[first].name,
                  path |-> workspaces[first].path]

\* the target of focusWorkspace() without a name: the entry of the list read
\* second whose path is the active path
ActiveLookup(call, fast, foundWorkspace) ==
    IF fast.result.threw
    THEN [found |-> FALSE,
          ret |-> Failed(call, "Failed to focus workspace", fast.result.error)]
    ELSE IF ~foundWorkspace.found
    THEN [found |-> FALSE,
          ret |-> Failed(call, "Failed to focus workspace",
                         Error("Could not find active workspace in open workspaces list"))]
    ELSE [found |-> TRUE, ret |-> [call EXCEPT !.target = foundWorkspace]]

\* second = the list the second read gave
FocusWorkspaceActiveRead(active, fast, wmctrlList, activateOk, codeOk) ==
    FocusWorkspaceFound(fast,
        ActiveLookup([Call("focusWorkspace", <<>>, active.fast, now) EXCEPT
                         !.path = active.path, !.method = active.method,
                         !.second = Index(fast.result)],
                     fast, FindByPath(fast.result.value, active.path)),
        wmctrlList, activateOk, codeOk)

\* later = the machine as the second read finds it
FocusWorkspaceActiveWith(active, later, wmctrlList, activateOk, codeOk) ==
    /\ world' = later
    /\ FocusWorkspaceActiveRead(active, getOpenWorkspacesFast(later, active.cache, now),
                                wmctrlList, activateOk, codeOk)

\* focusWorkspace() without a name: the active path, then a second read of the list
FocusWorkspaceActive(wmctrlList, activateOk, codeOk) ==
    FocusWorkspaceActiveWith(getActiveVSCodeWorkspace(world, workspaceCache, now), world,
                             wmctrlList, activateOk, codeOk)

\* focusWorkspace() without a name while windows open and close: the machine is
\* another one by the time the list is read again
FocusWorkspaceActiveAmid(later, wmctrlList, activateOk, codeOk) ==
    FocusWorkspaceActiveWith(getActiveVSCodeWorkspace(world, workspaceCache, now), later,
                             wmctrlList, activateOk, codeOk)

(***************************************************************************)
(* File operations of the controller                                       *)
(***************************************************************************)

\* this.workspaceRoot = process.cwd(), set once by the constructor
workspaceRoot(w) == w.cwd

\* the segments of a path with "", "." dropped and ".." taking back one segment
RECURSIVE NormalizeSegments(_, _)
NormalizeSegments(segs, acc) ==
    IF segs = <<>> THEN acc
    ELSE IF Head(segs) = <<>> \/ Head(segs) = <<".">> THEN NormalizeSegments(Tail(segs), acc)
    ELSE IF Head(segs) = <<".", ".">>
    THEN NormalizeSegments(Tail(segs),
                           IF acc = <<>> THEN acc ELSE SubSeq(acc, 1, Len(acc) - 1))
    ELSE NormalizeSegments(Tail(segs), Append(acc, Head(segs)))

\* path.resolve(base, filePath) for an absolute base
PathResolve(base, filePath) ==
    Slash \o Join(NormalizeSegments(
                      Split(IF StartsWith(filePath, Slash) THEN filePath
                            ELSE base \o Slash \o filePath, Slash),
                      <<>>), Slash)

\* a call that does not read the list of workspaces
PlainCall(op, name, t) == [NoRet EXCEPT !.op = op, !.name = name, !.at = t]

\* what a handler leaves: the record of the call and the cache slot
Outcome(r, cache) == [ret |-> r, cache |-> cache]

\* what a search tool does: "matches" prints lines and exits 0; "nomatch" exits 1
\* and "unavailable" exits 127, and execAsync rejects on both
SearchLine == <<"a",":","1",":","x","\n">>
ToolRun(toolOutcome) == IF toolOutcome = "matches" THEN ExecOk(SearchLine) ELSE ExecFail

\* the content branch of searchWorkspace once rg has run
ContentSearched(call, query, rg, grep) ==
    IF rg.ok
    THEN [call EXCEPT !.commands = <<Command("rg", query)>>, !.output = rg.stdout]
    ELSE IF grep.ok
    THEN [call EXCEPT !.commands = <<Command("rg", query), Command("grep", query)>>,
                      !.output = grep.stdout]
    ELSE Failed([call EXCEPT !.commands = <<Command("rg", query), Command("grep", query)>>],
                "Search failed",
                Error("Neither ripgrep nor grep available for content search"))

\* searchWorkspace(query, type): the glob, rg and grep all run with
\* cwd: this.workspaceRoot
searchWorkspace(w, cache, t, query, type, rgOutcome, grepOutcome) ==
    Outcome(IF type = "files"
            THEN [PlainCall("searchWorkspace", query, t) EXCEPT
                     !.root = workspaceRoot(w), !.commands = <<Command("glob", query)>>]
            ELSE ContentSearched([PlainCall("searchWorkspace", query, t) EXCEPT
                                     !.root = workspaceRoot(w),
                                     !.runs = <<rgOutcome, grepOutcome>>],
                                 query, ToolRun(rgOutcome), ToolRun(grepOutcome)),
            cache)

\* the directory selectFileInExplorer resolves the file path against, given the
\* active workspace and this.workspaceRoot
SelectBaseRoot(activeWorkspace, root) == root

SelectBase(activeWorkspace, root) == activeWorkspace

\* `code "<finalPath>" --command workbench.files.action.showActiveFileInExplorer`
FileSelected(call, finalPath, codeOk) ==
    IF codeOk THEN [call EXCEPT !.commands = <<Command("code", finalPath)>>]
    ELSE Failed([call EXCEPT !.commands = <<Command("code", finalPath)>>],
                "Failed to select file in explorer", Error("Command failed: code"))

\* selectFileInExplorer past the resolution of the path: the existence tests
\* and the editor command
FileChecked(w, call, filePath, absolutePath, codeOk) ==
    IF Access(w, absolutePath) THEN FileSelected(call, absolutePath, codeOk)
    ELSE IF ~StartsWith(filePath, Slash) \/ ~Access(w, filePath)
    THEN Failed(call, "Failed to select file in explorer", Error("File does not exist"))
    ELSE FileSelected(call, filePath, codeOk)

SelectFileWith(w, active, t, filePath, codeOk) ==
    Outcome(FileChecked(w,
                        [Call("selectFileInExplorer", filePath, active.fast, t) EXCEPT
                            !.path = active.path, !.method = active.method,
                            !.root = SelectBase(active.path, workspaceRoot(w))],
                        filePath,
                        PathResolve(SelectBase(active.path, workspaceRoot(w)), filePath),
                        codeOk),
            active.cache)

\* selectFileInExplorer(filePath)
selectFileInExplorer(w, cache, t, filePath, codeOk) ==
    SelectFileWith(w, getActiveVSCodeWorkspace(w, cache, t), t, filePath, codeOk)

\* a handler is run: its record and the cache slot it leaves become the state
Apply(outcome) ==
    /\ ret' = outcome.ret
    /\ workspaceCache' = outcome.cache
    /\ UNCHANGED <<world, now, arrays, slotArray, calls>>

SearchWorkspace(query, type, rgOutcome, grepOutcome) ==
    Apply(searchWorkspace(world, workspaceCache, now, query, type, rgOutcome, grepOutcome))

SelectFileInExplorer(filePath, codeOk) ==
    Apply(selectFileInExplorer(world, workspaceCache, now, filePath, codeOk))

\* inputs of the file operations
Queries == {<<"x">>}
ToolOutcomes == {"matches", "nomatch", "unavailable"}
FilePaths ==
    {<<"f">>, <<"g">>, <<".",".","/","w","/","f">>, FileInW, <<"/","s","r","v","/","n">>}

(***************************************************************************)
(* The other file operations, and the server's tool handlers               *)
(***************************************************************************)

\* what a handler that writes files leaves: created = the paths it made
Written(outcome, created) ==
    [ret |-> outcome.ret, cache |-> outcome.cache, created |-> created]

\* the editor command of openFile: `code "<abs>"` or `code --goto "<abs>:<line>"`
FileOpened(call, prefix, absolutePath, line, codeOk) ==
    LET command == IF line # <<>>
                   THEN Command("code --goto", absolutePath \o <<":">> \o line)
                   ELSE Command("code", absolutePath)
    IN  IF codeOk THEN [call EXCEPT !.commands = <<command>>]
        ELSE Failed([call EXCEPT !.commands = <<command>>], prefix,
                    Error("Command failed: code"))

\* openFile(filePath, line): no line is <<>>
openFile(w, cache, t, filePath, line, codeOk) ==
    Outcome(FileOpened([PlainCall("openFile", filePath, t) EXCEPT !.root = workspaceRoot(w)],
                       "Failed to open file", PathResolve(workspaceRoot(w), filePath),
                       line, codeOk),
            cache)

\* runTerminalCommand(command, cwd): the command runs in workingDir; the editor
\* command that follows may fail without effect
CommandRun(call, command, workingDir, commandOk) ==
    IF commandOk
    THEN [call EXCEPT !.root = workingDir,
                      !.commands = <<Command(command, workingDir),
                                     Command("code --command",
                                             <<"workbench.action.terminal.new">>)>>]
    ELSE Failed([call EXCEPT !.root = workingDir,
                             !.commands = <<Command(command, workingDir)>>],
                "Failed to execute command", Error("Command failed"))

runTerminalCommand(w, cache, t, command, cwd, commandOk) ==
    Outcome(CommandRun(PlainCall("runTerminalCommand", command, t), command,
                       IF cwd # <<>> THEN PathResolve(workspaceRoot(w), cwd)
                       ELSE workspaceRoot(w),
                       commandOk),
            cache)

\* the directories mkdir(dir, {recursive: true}) makes sure of
RECURSIVE MadeDirs(_)
MadeDirs(dir) == IF dir = RootDir \/ dir = <<>> THEN {} ELSE {dir} \cup MadeDirs(Dirname(dir))

\* createFile(filePath, content): mkdir, writeFile, then this.openFile(filePath)
FileCreated(call, absolutePath, mkdirOk, writeOk, codeOk, cache) ==
    IF ~mkdirOk
    THEN Written(Outcome(Failed(call, "Failed to create file", Error("mkdir failed")), cache),
                 {})
    ELSE IF ~writeOk
    THEN Written(Outcome(Failed(call, "Failed to create file", Error("writeFile failed")),
                         cache),
                 MadeDirs(Dirname(absolutePath)))
    ELSE Written(Outcome(FileOpened(call, "Failed to create file", absolutePath, <<>>, codeOk),
                         cache),
                 MadeDirs(Dirname(absolutePath)) \cup {absolutePath})

createFile(w, cache, t, filePath, mkdirOk, writeOk, codeOk) ==
    FileCreated([PlainCall("createFile", filePath, t) EXCEPT !.root = workspaceRoot(w)],
                PathResolve(workspaceRoot(w), filePath), mkdirOk, writeOk, codeOk, cache)

\* revealInExplorer past the existence test: revealFileInOS, then
\* showActiveFileInExplorer or, if that fails, explorer.openToSide
FileRevealed(call, absolutePath, osOk, showOk, altOk) ==
    LET os == Command("code --command revealFileInOS", absolutePath)
        show == Command("code --command showActiveFileInExplorer", absolutePath)
        alt == Command("code --command explorer.openToSide", absolutePath)
    IN  IF ~osOk
        THEN Failed([call EXCEPT !.commands = <<os>>], "Failed to reveal file in explorer",
                    Error("Command failed: code"))
        ELSE IF showOk THEN [call EXCEPT !.commands = <<os, show>>]
        ELSE IF altOk THEN [call EXCEPT !.commands = <<os, show, alt>>]
        ELSE Failed([call EXCEPT !.commands = <<os, show, alt>>],
                    "Failed to reveal file in explorer", Error("Command failed: code"))

\* revealInExplorer(filePath)
revealInExplorer(w, cache, t, filePath, osOk, showOk, altOk) ==
    Outcome(IF Access(w, PathResolve(workspaceRoot(w), filePath))
            THEN FileRevealed([PlainCall("revealInExplorer", filePath, t) EXCEPT
                                  !.root = workspaceRoot(w)],
                              PathResolve(workspaceRoot(w), filePath), osOk, showOk, altOk)
            ELSE Failed([PlainCall("revealInExplorer", filePath, t) EXCEPT
                            !.root = workspaceRoot(w)],
                        "Failed to reveal file in explorer", Error("File does not exist")),
            cache)

\* focusExplorer(): `code --command "workbench.view.explorer"`
focusExplorer(cache, t, codeOk) ==
    Outcome(IF codeOk
            THEN [PlainCall("focusExplorer", <<>>, t) EXCEPT
                     !.commands = <<Command("code --command", <<"workbench.view.explorer">>)>>]
            ELSE Failed([PlainCall("focusExplorer", <<>>, t) EXCEPT
                            !.commands = <<Command("code --command",
                                                   <<"workbench.view.explorer">>)>>],
                        "Failed to focus explorer", Error("Command failed: code")),
            cache)

\* the names of the tools array returned for tools/list, in order
ToolList ==
    <<"open_file", "run_terminal_command", "create_file", "search_workspace",
      "reveal_in_explorer", "focus_explorer", "select_file_in_explorer">>

\* the handler of tools/list
ListTools ==
    /\ ret' = [PlainCall("ListTools", <<>>, now) EXCEPT !.tools = ToolList]
    /\ UNCHANGED <<world, now, workspaceCache, arrays, slotArray, calls>>

\* the arguments object of a request and what the commands run for it do
ToolArguments(path, line, command, cwd, query, type) ==
    [path |-> path, line |-> line, command |-> command, cwd |-> cwd, query |-> query,
     type |-> type]
Runs(first, second, third, rg, grep) ==
    [first |-> first, second |-> second, third |-> third, rg |-> rg, grep |-> grep]

\* a throw of the tool-call handler itself
Rejected(message, cache, t) ==
    Written(Outcome(Failed(PlainCall("CallTool", <<>>, t), "", Error(message)), cache), {})

\* the switch of the tool-call handler
Dispatch(w, cache, t, name, args, runs) ==
    IF name = "open_file"
    THEN Written(openFile(w, cache, t, args.path, args.line, runs.first), {})
    ELSE IF name = "run_terminal_command"
    THEN Written(runTerminalCommand(w, cache, t, args.command, args.cwd, runs.first), {})
    ELSE IF name = "create_file"
    THEN createFile(w, cache, t, args.path, runs.first, runs.second, runs.third)
    ELSE IF name = "search_workspace"
    THEN Written(searchWorkspace(w, cache, t, args.query, args.type, runs.rg, runs.grep), {})
    ELSE IF name = "reveal_in_explorer"
    THEN Written(revealInExplorer(w, cache, t, args.path, runs.first, runs.second,
                                  runs.third), {})
    ELSE IF name = "focus_explorer"
    THEN Written(focusExplorer(cache, t, runs.first), {})
    ELSE IF name = "select_file_in_explorer"
    THEN Written(selectFileInExplorer(w, cache, t, args.path, runs.first), {})
    ELSE Rejected("Unknown tool", cache, t)

\* the handler of tools/call letting focus_explorer, which takes no arguments,
\* through without an arguments object
callToolExplorerFree(w, cache, t, request, args, runs) ==
    IF ~request.arguments /\ request.name # "focus_explorer"
    THEN Rejected("Missing arguments", cache, t)
    ELSE Dispatch(w, cache, t, request.name, args, runs)

\* the handler of tools/call: a request without an arguments object is thrown
\* out before the switch
callTool(w, cache, t, request, args, runs) ==
    IF ~request.arguments THEN Rejected("Missing arguments", cache, t)
    ELSE Dispatch(w, cache, t, request.name, args, runs)

CallTool(request, args, runs) ==
    LET done == callTool(world, workspaceCache, now, request, args, runs)
    IN  /\ ret' = [done.ret EXCEPT !.request = request]
        /\ workspaceCache' = done.cache
        /\ world' = [world EXCEPT !.created = @ \cup done.created]
        /\ UNCHANGED <<now, arrays, slotArray, calls>>

\* requests a client sends
RequestNames == {ToolList[i] : i \in 1..Len(ToolList)} \cup {"get_active_workspace"}
Requests == {Request(name, arguments) : name \in RequestNames, arguments \in BOOLEAN}
CreatePaths == {<<"f">>, <<"n","/","h">>}
ArgumentObjects ==
    {ToolArguments(<<"f">>, <<>>, <<"l","s">>, <<>>, <<"x">>, "files"),
     ToolArguments(<<"n","/","h">>, <<"4">>, <<"l","s">>, <<"n">>, <<"x">>, "content")}
RunResults ==
    {Runs(TRUE, TRUE, TRUE, "matches", "matches"),
     Runs(TRUE, FALSE, TRUE, "unavailable", "matches"),
     Runs(TRUE, FALSE, FALSE, "nomatch", "unavailable"),
     Runs(FALSE, TRUE, TRUE, "matches", "matches")}

(***************************************************************************)
(* The `workspace` command of the command-line helper.  Each run is a new  *)
(* process with a new controller, so the cache slot starts empty.  The     *)
(* record of the run keeps the arguments, what was printed and the exit    *)
(* status.                                                                 *)
(***************************************************************************)

\* the end of the action callback: a throw is caught, the error is printed and
\* the process exits with status 1; otherwise the result is printed
Exited(r, cache, args, printed) ==
    Outcome([r EXCEPT !.argv = args, !.exit = IF r.threw THEN 1 ELSE 0,
                      !.printed = IF r.threw THEN "error" ELSE printed],
            cache)

\* --active with --json: the path is resolved a second time and printed
WorkspaceActiveJson(args, active, second) ==
    Exited([ActiveWorkspaceResult(Call("getActiveWorkspace", <<>>, active.fast, now), active)
               EXCEPT !.path = second.path, !.method = second.method],
           second.cache, args, "activeWorkspace json")

\* --active
WorkspaceActive(args, active) ==
    IF args.json
    THEN WorkspaceActiveJson(args, active, getActiveVSCodeWorkspace(world, active.cache, now))
    ELSE Exited(ActiveWorkspaceResult(Call("getActiveWorkspace", <<>>, active.fast, now),
                                      active),
                active.cache, args, "active workspace")

\* --list
WorkspaceList(args, fast) ==
    Exited(AllWorkspacesResult(Call("getAllWorkspaces", <<>>, fast, now), fast),
           fast.cache, args, IF args.json THEN "workspaces json" ELSE "workspaces")

\* --get <name> without an action
WorkspaceGetFound(args, fast, looked, active) ==
    Exited(IF looked.found THEN WorkspaceInfoResult(looked.ret, active) ELSE looked.ret,
           IF looked.found THEN active.cache ELSE fast.cache,
           args, IF args.json THEN "workspace json" ELSE "workspace info")

WorkspaceGet(args, fast) ==
    WorkspaceGetFound(args, fast,
        NamedLookup("getWorkspaceInfo", "Failed to get workspace info", args.get, fast),
        getActiveVSCodeWorkspace(world, fast.cache, now))

\* open-terminal, with --get <name> or on the active workspace
WorkspaceTerminalFound(args, fast, looked, codeOk) ==
    Exited(IF looked.found THEN TerminalOpened(looked.ret, looked.ret.target.path, codeOk)
           ELSE looked.ret,
           fast.cache, args, "terminal opened")

WorkspaceTerminal(args, fast, active, codeOk) ==
    IF args.get # <<>>
    THEN WorkspaceTerminalFound(args, fast,
             NamedLookup("openTerminalInWorkspace", "Failed to open terminal", args.get, fast),
             codeOk)
    ELSE Exited(TerminalOpened(
                    [Call("openTerminalInWorkspace", <<>>, active.fast, now) EXCEPT
                        !.path = active.path, !.method = active.method],
                    active.path, codeOk),
                active.cache, args, "terminal opened")

\* focus, with --get <name> or on the active workspace
WorkspaceFocusFound(args, fast, looked, in) ==
    Exited(IF looked.found
           THEN FocusTarget(looked.ret, in.wmctrlList, in.activateOk, in.codeOk)
           ELSE looked.ret,
           fast.cache, args, "focused")

WorkspaceFocusActive(args, active, fast, in) ==
    WorkspaceFocusFound(args, fast,
        ActiveLookup([Call("focusWorkspace", <<>>, active.fast, now) EXCEPT
                         !.path = active.path, !.method = active.method],
                     fast, FindByPath(fast.result.value, active.path)),
        in)

WorkspaceFocus(args, fast, active, in) ==
    IF args.get # <<>>
    THEN WorkspaceFocusFound(args, fast,
             NamedLookup("focusWorkspace", "Failed to focus workspace", args.get, fast), in)
    ELSE WorkspaceFocusActive(args, active,
                              getOpenWorkspacesFast(world, active.cache, now), in)

\* the action callback of `workspace [action]`; fast and active are what the
\* new controller's first read of the list and first resolution give
WorkspaceAction(args, in, fast, active) ==
    IF args.active THEN WorkspaceActive(args, active)
    ELSE IF args.list THEN WorkspaceList(args, fast)
    ELSE IF args.get # <<>> /\ args.action = "" THEN WorkspaceGet(args, fast)
    ELSE IF args.action = ""
    THEN Exited(Failed(PlainCall("workspace", <<>>, now), "",
                       Error("Please specify an action")),
                NoCache, args, "none")
    ELSE IF args.action = "open-terminal" THEN WorkspaceTerminal(args, fast, active, in.codeOk)
    ELSE IF args.action = "focus" THEN WorkspaceFocus(args, fast, active, in)
    ELSE IF args.action = "open-file"
    THEN Exited(PlainCall("workspace", <<>>, now), NoCache, args, "not yet implemented")
    ELSE Exited(Failed(PlainCall("workspace", <<>>, now), "", Error("Unknown action")),
                NoCache, args, "none")

\* `vscode-helper workspace [action] [--active] [--list] [--get <name>] [--json]`
WorkspaceCommand(args, in) ==
    /\ ret.op = "none"
    /\ Apply(WorkspaceAction(args, in, getOpenWorkspacesFast(world, NoCache, now),
                             getActiveVSCodeWorkspace(world, NoCache, now)))

\* command lines of the `workspace` command
CliActions == {"", "open-terminal", "focus", "open-file", "close"}
CliArgs ==
    {Args(action, active, list, get, json) :
        action \in CliActions, active \in BOOLEAN, list \in BOOLEAN,
        get \in {<<>>, <<"p">>, <<"z","z">>}, json \in BOOLEAN}

(***************************************************************************)
(* Overlapping calls of getOpenWorkspacesFast on one controller.  A call   *)
(* runs until its next await and is resumed when the awaited command or    *)
(* file operation settles; other calls run in between.  JavaScript arrays  *)
(* are objects: arrays[id] is the content of the array id, a call's        *)
(* `workspaces` is an id, and slotArray is the id of the array that        *)
(* this.workspaceCache.data refers to (0: none), so that a push to that    *)
(* array shows in workspaceCache.data.                                     *)
(***************************************************************************)

MaxCalls == 2
MaxArrays == 4
Callers == 1..MaxCalls

\* a call that has not begun: pc is where the call is suspended
IdleCall ==
    [pc |-> "idle", array |-> 0, windowWorkspaceNames |-> <<>>, workspaceFiles |-> <<>>,
     i |-> 0, result |-> 0, served |-> FALSE, threw |-> FALSE]

\* no call is in flight and no array has been allocated
NoCalls ==
    /\ arrays = <<>>
    /\ slotArray = 0
    /\ calls = [c \in Callers |-> IdleCall]

\* workspaces.push(entry) on the array id: seen through every reference to it
Pushed(id, entry) == [arrays EXCEPT ![id] = Append(@, entry)]
SlotSees(newArrays) ==
    IF workspaceCache.present /\ slotArray # 0
    THEN [workspaceCache EXCEPT !.data = newArrays[slotArray]]
    ELSE workspaceCache

\* whether `this.workspaceCache = {data: workspaces, ...}` runs after every
\* iteration of the loop over workspaceFiles
CachedInsideLoop(i, workspaceFiles) == TRUE

\* whether `this.workspaceCache = {data: workspaces, ...}` runs once file i is
\* done: only after the loop over workspaceFiles
CachedAfter(i, workspaceFiles) == i >= Len(workspaceFiles)

\* the call begins: served from the slot, or a new array and `wmctrl -l -x`
Begin(c) ==
    /\ calls[c].pc = "idle"
    /\ IF CacheFresh(workspaceCache, now)
       THEN /\ calls' = [calls EXCEPT ![c] = [IdleCall EXCEPT !.pc = "returned",
                                                 !.result = slotArray, !.served = TRUE]]
            /\ UNCHANGED arrays
       ELSE /\ Len(arrays) < MaxArrays
            /\ arrays' = Append(arrays, <<>>)
            /\ calls' = [calls EXCEPT ![c] = [IdleCall EXCEPT !.pc = "wmctrl",
                                                 !.array = Len(arrays) + 1]]
    /\ UNCHANGED <<world, now, workspaceCache, slotArray, ret>>

\* `wmctrl -l -x` settles: the window names are collected and the store is
\* listed, or the catch block runs `code --status`
WmctrlSettles(c) ==
    /\ calls[c].pc = "wmctrl"
    /\ calls' = [calls EXCEPT ![c] =
                    IF world.wmctrl.ok
                    THEN [@ EXCEPT !.pc = "ls",
                             !.windowWorkspaceNames =
                                 WindowWorkspaceNames(world.wmctrl.stdout)]
                    ELSE [@ EXCEPT !.pc = "status"]]
    /\ UNCHANGED <<world, now, workspaceCache, slotArray, arrays, ret>>

\* the array of the call becomes the data of the slot and the call returns it
Cached(c) ==
    /\ workspaceCache' = CacheEntry(arrays'[calls[c].array], now)
    /\ slotArray' = calls[c].array
    /\ calls' = [calls EXCEPT ![c] = [@ EXCEPT !.pc = "returned", !.result = calls[c].array]]

\* the listing of the store settles
LsSettles(c) ==
    /\ calls[c].pc = "ls"
    /\ UNCHANGED <<world, now, arrays, ret>>
    /\ IF ~world.lsStore.ok
       THEN /\ calls' = [calls EXCEPT ![c] = [@ EXCEPT !.pc = "status"]]
            /\ UNCHANGED <<workspaceCache, slotArray>>
       ELSE IF Trim(world.lsStore.stdout) = <<>>
       THEN Cached(c)
       ELSE /\ calls' = [calls EXCEPT ![c] =
                            [@ EXCEPT !.pc = "readFile", !.i = 1,
                                !.workspaceFiles =
                                    Split(Trim(world.lsStore.stdout), Newline)]]
            /\ UNCHANGED <<workspaceCache, slotArray>>

\* file i is done with newArrays as the arrays: the slot is assigned, or the
\* next file is read
FileDone(c, newArrays) ==
    /\ arrays' = newArrays
    /\ IF CachedAfter(calls[c].i, calls[c].workspaceFiles)
       THEN /\ workspaceCache' = CacheEntry(newArrays[calls[c].array], now)
            /\ slotArray' = calls[c].array
       ELSE /\ workspaceCache' = SlotSees(newArrays)
            /\ UNCHANGED slotArray
    /\ calls' = [calls EXCEPT ![c] =
                    IF calls[c].i >= Len(calls[c].workspaceFiles)
                    THEN [@ EXCEPT !.pc = "returned", !.result = calls[c].array]
                    ELSE [@ EXCEPT !.pc = "readFile", !.i = @ + 1]]

\* the record of file i
RecordAt(c) == ParseRecord(ReadRecord(calls[c].workspaceFiles[calls[c].i]))

\* readFile of file i settles: a record that parses and matches a window name
\* goes on to the access test, any other ends the iteration
ReadFileSettles(c) ==
    /\ calls[c].pc = "readFile"
    /\ UNCHANGED <<world, now, ret>>
    /\ IF /\ RecordAt(c).ok
          /\ \E k \in 1..Len(calls[c].windowWorkspaceNames) :
                 NameMatches(calls[c].windowWorkspaceNames[k], RecordAt(c).name)
       THEN /\ calls' = [calls EXCEPT ![c] = [@ EXCEPT !.pc = "access"]]
            /\ UNCHANGED <<workspaceCache, slotArray, arrays>>
       ELSE FileDone(c, arrays)

\* access(workspacePath) settles: the entry is pushed if the path exists
AccessSettles(c) ==
    /\ calls[c].pc = "access"
    /\ UNCHANGED <<world, now, ret>>
    /\ FileDone(c, IF Access(world, RecordAt(c).path)
                   THEN Pushed(calls[c].array,
                               [name |-> RecordAt(c).name, path |-> RecordAt(c).path])
                   ELSE arrays)

\* the slow path settles: parseVSCodeStatus returns an array of its own, or
\* `code --status` is rejected; the slot is not assigned
StatusSettlesWith(c, slow) ==
    /\ calls[c].pc = "status"
    /\ IF slow.threw
       THEN /\ calls' = [calls EXCEPT ![c] = [@ EXCEPT !.pc = "returned", !.threw = TRUE]]
            /\ UNCHANGED arrays
       ELSE /\ Len(arrays) < MaxArrays
            /\ arrays' = Append(arrays, slow.value)
            /\ calls' = [calls EXCEPT ![c] =
                            [@ EXCEPT !.pc = "returned", !.result = Len(arrays) + 1]]
    /\ UNCHANGED <<world, now, workspaceCache, slotArray, ret>>

StatusSettles(c) == StatusSettlesWith(c, BuildIndexOf[AsStarted(world)].result)

\* the caller has taken the result; the call may be made again
Taken(c) ==
    /\ calls[c].pc = "returned"
    /\ calls' = [calls EXCEPT ![c] = IdleCall]
    /\ UNCHANGED <<world, now, workspaceCache, slotArray, arrays, ret>>

(***************************************************************************)
(* The indicator walk of getActiveVSCodeWorkspace, one iteration of its     *)
(* while loop at a time.  A resolution whose index step gave nothing is in *)
(* calls[c]: pc is where it stands, currentDir the loop variable,           *)
(* inspected the directories whose indicators were tested, in order.        *)
(***************************************************************************)

Walkers == {1}

\* the indicator walk from directories at depths 0 to 4, on machines with
\* indicators at the start, on the way, at the root, or nowhere
GitAtRoot == PathJoin(RootDir, <<".","g","i","t">>)
WalkStarts == {RootDir, <<"/","s","r","v">>, CwdElsewhere, DefaultHome, CwdInP1}
WalkWorlds ==
    EmptyIndexWorldsOf({<<ExecFail, ExecFail, ExecFail>>}, {ExecFail, RecentGEFA},
                       IndicatorWorlds
                           \cup {[files |-> {GitAtRoot}, settings |-> NoSettings],
                                 [files |-> {GitAtRoot, GitAboveHome}, settings |-> NoSettings]},
                       WalkStarts)

\* a directory and the directories above it
RECURSIVE DirsAbove(_)
DirsAbove(dir) == IF Dirname(dir) = dir THEN {dir} ELSE {dir} \cup DirsAbove(Dirname(dir))
WalkDirs == UNION {DirsAbove(dir) : dir \in WalkStarts}

\* what the body of the loop and approach 3 compute depends on the machine and
\* the directory alone, so each is computed once
dirname == [dir \in WalkDirs |-> Dirname(dir)]
IndicatorDirsOf ==
    [w \in WalkWorlds |->
        {dir \in WalkDirs : \E i \in 1..Len(Indicators) : IndicatorFound(w, dir, Indicators[i])}]
RecentOrCwdOf == [w \in WalkWorlds |-> RecentOrCwd(RecentWorkspace(w), w.cwd)]

Walking(pc, currentDir, inspected, selected) ==
    [pc |-> pc, currentDir |-> currentDir, inspected |-> inspected, selected |-> selected]
IdleWalk == Walking("idle", <<>>, <<>>, Selected(<<>>, "none"))

\* the loop that also runs its body at the root
WalkContinuesAlways(currentDir) == TRUE

\* while (currentDir !== rootDir)
WalkContinues(currentDir) == currentDir # RootDir

\* let currentDir = process.cwd()
WalkBegins(c) ==
    /\ calls[c].pc = "idle"
    /\ calls' = [calls EXCEPT ![c] = Walking("while", world.cwd, <<>>, calls[c].selected)]
    /\ UNCHANGED <<world, now, workspaceCache, ret, arrays, slotArray>>

\* one pass of the loop body: the indicators of currentDir are tested; one found
\* returns currentDir, otherwise the parent is taken, or the loop is left when
\* the parent is currentDir itself
WalkIterates(c) ==
    /\ calls[c].pc = "while"
    /\ WalkContinues(calls[c].currentDir)
    /\ calls' =
           [calls EXCEPT ![c] =
               IF calls[c].currentDir \in IndicatorDirsOf[world]
               THEN Walking("returned", calls[c].currentDir,
                            Append(calls[c].inspected, calls[c].currentDir),
                            Selected(calls[c].currentDir, "indicator"))
               ELSE IF dirname[calls[c].currentDir] = calls[c].currentDir
               THEN Walking("recent", calls[c].currentDir,
                            Append(calls[c].inspected, calls[c].currentDir),
                            calls[c].selected)
               ELSE Walking("while", dirname[calls[c].currentDir],
                            Append(calls[c].inspected, calls[c].currentDir),
                            calls[c].selected)]
    /\ UNCHANGED <<world, now, workspaceCache, ret, arrays, slotArray>>

\* the loop condition is false: on to approach 3
WalkEnds(c) ==
    /\ calls[c].pc = "while"
    /\ ~WalkContinues(calls[c].currentDir)
    /\ calls' = [calls EXCEPT ![c] = [calls[c] EXCEPT !.pc = "recent"]]
    /\ UNCHANGED <<world, now, workspaceCache, ret, arrays, slotArray>>

\* approaches 3 and 4
RecentStep(c) ==
    /\ calls[c].pc = "recent"
    /\ calls' = [calls EXCEPT ![c] =
                    [calls[c] EXCEPT !.pc = "returned",
                                     !.selected = RecentOrCwdOf[world]]]
    /\ UNCHANGED <<world, now, workspaceCache, ret, arrays, slotArray>>

(***************************************************************************)
(* Specifications                                                          *)
(***************************************************************************)

\* time passes between calls
Tick ==
    /\ now + TickMs <= MaxNow
    /\ now' = now + TickMs
    /\ UNCHANGED <<world, workspaceCache, ret, arrays, slotArray, calls>>

\* the whole controller, in the core worlds
Init ==
    /\ world \in CoreWorlds
    /\ now = 0
    /\ NoCalls
    /\ workspaceCache = NoCache
    /\ ret = NoRet

Next ==
    \/ Tick
    \/ GetAllWorkspaces
    \/ GetActiveWorkspace
    \/ \E workspaceName \in LookupNames \cup {<<>>} : GetWorkspaceInfo(workspaceName)
    \/ \E workspaceName \in LookupNames, codeOk \in BOOLEAN :
           OpenTerminalNamed(workspaceName, codeOk)
    \/ \E codeOk \in BOOLEAN : OpenTerminalActive(codeOk)
    \/ \E workspaceName \in LookupNames, in \in FocusInputs :
           FocusWorkspaceNamed(workspaceName, in.wmctrlList, in.activateOk, in.codeOk)
    \/ \E in \in FocusInputs :
           FocusWorkspaceActive(in.wmctrlList, in.activateOk, in.codeOk)

Spec == Init /\ [][Next]_vars

\* listing and resolution alone, in every world
InitResolve ==
    /\ world \in Worlds
    /\ now = 0
    /\ NoCalls
    /\ workspaceCache = NoCache
    /\ ret = NoRet

NextResolve ==
    \/ Tick
    \/ GetAllWorkspaces
    \/ GetActiveWorkspace

SpecResolve == InitResolve /\ [][NextResolve]_vars

InitWalk ==
    /\ world \in WalkWorlds
    /\ now = 0
    /\ arrays = <<>>
    /\ slotArray = 0
    /\ calls = [c \in Walkers |-> IdleWalk]
    /\ workspaceCache = NoCache
    /\ ret = NoRet

NextWalk ==
    \E c \in Walkers :
        \/ WalkBegins(c)
        \/ WalkIterates(c)
        \/ WalkEnds(c)
        \/ RecentStep(c)

\* a resolution that can take a step takes one
SpecWalk == InitWalk /\ [][NextWalk]_vars /\ WF_vars(NextWalk)

\* focusWorkspace() on a machine that changes between its two reads of the list
FocusWorlds ==
    FastWorldsOf({ExecOk(LineP1 \o LineQ)}, {<<FileA, FileB>>, <<FileB, FileC>>}, {CwdInP1})
    \cup EmptyIndexWorldsOf({<<WmctrlNoWindows, LsOrEcho(<<>>), ExecFail>>,
                             <<ExecFail, ExecFail, ExecFail>>},
                            {ExecFail}, {[files |-> {GitInP1}, settings |-> NoSettings]},
                            {CwdInP1})
    \cup SlowWorldsOf({<<ExecFail, ExecFail>>}, {ExecOk(Printed(<<FileA, FileB>>))},
                      {ExecOk(StatusHeader \o StatusMarker \o FolderLine(NameP)),
                       ExecOk(FolderLine(NameP) \o StatusMarker \o FolderLine(NameP1)
                              \o FolderLine(NameZZ))},
                      {CwdInP1})

InitFocus ==
    /\ world \in FocusWorlds
    /\ now = 0
    /\ NoCalls
    /\ workspaceCache = NoCache
    /\ ret = NoRet

NextFocus ==
    \/ Tick
    \/ GetAllWorkspaces
    \/ \E later \in FocusWorlds, in \in FocusInputs :
           FocusWorkspaceActiveAmid(later, in.wmctrlList, in.activateOk, in.codeOk)

SpecFocus == InitFocus /\ [][NextFocus]_vars

\* the file operations, with listings in between
NextFiles ==
    \/ Tick
    \/ GetAllWorkspaces
    \/ \E query \in Queries, type \in {"files", "content"},
          rgOutcome \in ToolOutcomes, grepOutcome \in ToolOutcomes :
           SearchWorkspace(query, type, rgOutcome, grepOutcome)
    \/ \E filePath \in FilePaths, codeOk \in BOOLEAN : SelectFileInExplorer(filePath, codeOk)

SpecFiles == Init /\ [][NextFiles]_vars

\* one run of the `workspace` command, in the core worlds
NextCli == \E args \in CliArgs, in \in FocusInputs : WorkspaceCommand(args, in)

SpecCli == Init /\ [][NextCli]_vars

\* the server: tool listings and tool calls on one controller
NextServer ==
    \/ ListTools
    \/ \E request \in Requests, args \in ArgumentObjects, runs \in RunResults :
           CallTool(request, args, runs)

\* machines the server runs on: an index of two workspaces, from inside and from
\* outside one of them, and an empty index
ServerWorlds ==
    FastWorldsOf({ExecOk(LineP1 \o LineQ)}, {<<FileA, FileB>>, <<FileE, FileB>>},
                 {CwdInP1, CwdElsewhere})
    \cup EmptyIndexWorldsOf(EmptyIndexCommands, {ExecFail},
                            {[files |-> {GitInP1}, settings |-> NoSettings]}, {CwdInP1})

InitServer ==
    /\ world \in ServerWorlds
    /\ now = 0
    /\ NoCalls
    /\ workspaceCache = NoCache
    /\ ret = NoRet

SpecServer == InitServer /\ [][NextServer]_vars

\* overlapping listings on one controller
RaceWorlds ==
    FastWorldsOf({ExecOk(LineP1 \o LineQ)},
                 {<<>>, <<FileA, FileB>>, <<FileE, FileB>>, <<FileD, FileA>>},
                 {CwdElsewhere})
    \cup SlowWorldsOf({<<ExecFail, ExecFail>>, <<ExecOk(LineP1), ExecFail>>},
                      {ExecOk(Printed(<<FileA, FileB>>))}, StatusOutputs, {CwdInP1})

InitRace ==
    /\ world \in RaceWorlds
    /\ now = 0
    /\ NoCalls
    /\ workspaceCache = NoCache
    /\ ret = NoRet

NextRace ==
    \/ Tick
    \/ \E c \in Callers :
           \/ Begin(c)
           \/ WmctrlSettles(c)
           \/ LsSettles(c)
           \/ ReadFileSettles(c)
           \/ AccessSettles(c)
           \/ StatusSettles(c)
           \/ Taken(c)

SpecRace == InitRace /\ [][NextRace]_vars

\* the title parser alone, on titles made of up to MaxFragments fragments
\* followed by the product name
MaxFragments == 3
TitleFragments ==
    {<<>>, <<"a">>, <<"b">>, <<"a"," ","b">>, <<" ","b">>, <<"a"," ">>, <<" ">>}
TitleInputs == UNION {[1..n -> TitleFragments] : n \in 0..MaxFragments}
TitleOf(fragments) == Join(fragments \o <<VisualStudioCode>>, TitleSeparator)

\* the machine on which every command fails
QuietWorld ==
    World(ExecFail, ExecFail, ExecFail, ExecFail, ExecFail, BaseExists, NoSettings,
          CwdElsewhere)

InitTitle ==
    /\ world = QuietWorld
    /\ now = 0
    /\ NoCalls
    /\ workspaceCache = NoCache
    /\ ret \in {[NoRet EXCEPT !.fragments = f, !.title = TitleOf(f)] : f \in TitleInputs}

\* this.extractWorkspaceFromTitle(windowTitle)
ExtractWorkspaceFromTitle ==
    /\ ret.op = "none"
    /\ ret' = [ret EXCEPT !.op = "extractWorkspaceFromTitle",
                          !.parsed = extractWorkspaceFromTitle(ret.title)]
    /\ UNCHANGED <<world, now, workspaceCache, arrays, slotArray, calls>>

NextTitle == ExtractWorkspaceFromTitle

SpecTitle == InitTitle /\ [][NextTitle]_vars

\* the status-line parser alone, on texts of up to MaxStatusLines lines
MaxStatusLines == 3
StatusLineKinds ==
    {<<"V","e","r","s","i","o","n",":"," ","1">>,
     <<>>,
     <<"|"," "," ">> \o WorkspaceStatsMarker,
     <<"|"," "," ">> \o FolderOpen \o NameP \o <<")",":"," ","2"," ","f","i","l","e","s">>,
     <<" "," ">> \o FolderOpen \o NameP1 \o <<")",":"," ","3"," ","f","i","l","e","s">>,
     FolderOpen \o NameZZ \o <<")",":">>,
     <<"x"," ">> \o FolderOpen \o NameP \o <<")",":">>,
     FolderOpen \o NameP \o <<")",":"," ">> \o WorkspaceStatsMarker}
StatusInputs == UNION {[1..n -> StatusLineKinds] : n \in 0..MaxStatusLines}

InitStatus ==
    /\ world = QuietWorld
    /\ now = 0
    /\ NoCalls
    /\ workspaceCache = NoCache
    /\ ret \in {[NoRet EXCEPT !.lines = l] : l \in StatusInputs}

\* this.parseVSCodeStatus(statusOutput) on the lines joined by line feeds
ParseVSCodeStatus ==
    /\ ret.op = "none"
    /\ ret' = [ret EXCEPT !.op = "parseVSCodeStatus",
                          !.workspaces = parseVSCodeStatus(world, Join(ret.lines, Newline))]
    /\ UNCHANGED <<world, now, workspaceCache, arrays, slotArray, calls>>

NextStatus == ParseVSCodeStatus

SpecStatus == InitStatus /\ [][NextStatus]_vars

\* the slow path alone: name resolution and the status-line parser, over store
\* listings of up to MaxFindLen files and three file systems
MaxFindLen == 2
NameW == <<"w">>
NameLowerQ == <<"q">>
FindNames == {NameP, NameQ, NameLowerQ, NameW, NameZZ}
PathHomeW == PathJoin(DefaultHome, NameW)
PathDeepW == <<"/","h","o","m","e","/","u","b","u","n","t","u","/","p","r","o","j","e","c","t","s","/","x","/","y","/","w">>
FindExists ==
    {BaseExists, BaseExists \cup {PathHomeW},
     (BaseExists \ {PathW}) \cup {PathHomeW}, BaseExists \cup {PathDeepW, PathHomeW}}
FindListings ==
    {ExecFail}
    \cup {ExecOk(Printed(l)) : l \in Listings({FileA, FileD, FileE, FileG, FileH}, MaxFindLen)}
FindWorlds ==
    {World(ExecFail, ExecFail, find, ExecFail, ExecFail, exists, NoSettings, CwdElsewhere) :
        find \in FindListings, exists \in FindExists}
FolderText(name) == FolderOpen \o name \o <<")",":"," ","2"," ","f","i","l","e","s">>
SlowTexts ==
    {<<WorkspaceStatsMarker, FolderText(a), FolderText(b)>> : a \in FindNames, b \in {NameW, NameZZ}}

InitSlow ==
    /\ world \in FindWorlds
    /\ now = 0
    /\ NoCalls
    /\ workspaceCache = NoCache
    /\ ret \in {[NoRet EXCEPT !.lines = l] : l \in SlowTexts}

\* this.findWorkspacePathByName(workspaceName)
FindWorkspacePathByName(workspaceName) ==
    /\ ret.op = "none"
    /\ ret' = [ret EXCEPT !.op = "findWorkspacePathByName", !.name = workspaceName,
                          !.resolved = findWorkspacePathByName(world, workspaceName)]
    /\ UNCHANGED <<world, now, workspaceCache, arrays, slotArray, calls>>

NextSlow ==
    \/ \E workspaceName \in FindNames : FindWorkspacePathByName(workspaceName)
    \/ ParseVSCodeStatus

SpecSlow == InitSlow /\ [][NextSlow]_vars

(***************************************************************************)
(* Properties                                                              *)
(***************************************************************************)

\* the last call was a resolution of the active workspace
ResolutionCall == ret.op = "getActiveWorkspace"

\* the last call was a listing of the open workspaces
Listed == ret.op = "getAllWorkspaces"

\* the directories on the way from dir up to, not including, the root
Ancestors(dir) ==
    {SubSeq(dir, 1, n) : n \in {m \in 2..Len(dir) : m = Len(dir) \/ dir[m + 1] = "/"}}

\* dir is root or a directory below it
IsWithin(dir, root) == dir = root \/ StartsWith(dir, root \o Slash)

\* a occurs in b at some position
OccursIn(a, b) == \E k \in 0..(Len(b) - Len(a)) : \A i \in 1..Len(a) : b[k + i] = a[i]

\* each of the two names, lower-cased, is tried as a part of the other
SubstringEitherWay(a, b) ==
    \/ OccursIn(ToLowerCase(a), ToLowerCase(b))
    \/ OccursIn(ToLowerCase(b), ToLowerCase(a))

\* the entries of the index the last call read that the requested name matches
LookupHits ==
    {i \in 1..Len(ret.index.data) : SubstringEitherWay(ret.index.data[i].name, ret.name)}

\* the last call was a lookup by name: getWorkspaceInfo, or one of the two
\* handlers that take the name branch for a non-empty name
IsNamedLookup ==
    \/ ret.op = "getWorkspaceInfo"
    \/ ret.op \in {"openTerminalInWorkspace", "focusWorkspace"} /\ ret.name # <<>>

\* the last call ended with the 'not found' error
NotFoundOutcome == ret.threw /\ ret.error.message = "Workspace not found"

\* the steps of the fallback chain that come before the current directory
IndexStepSucceeds == ret.index.built /\ ret.index.data # <<>>
IndicatorStepSucceeds ==
    \E d \in Ancestors(world.cwd) :
        \E i \in 1..Len(Indicators) : IndicatorFound(world, d, Indicators[i])
RecentStepSucceeds == RecentWorkspace(world).found

\* no file or directory named as an indicator exists from the current directory
\* up to the root
NoIndicatorOnPath ==
    \A d \in Ancestors(world.cwd) \cup {RootDir} :
        \A i \in 1..Len(Indicators) : PathJoin(d, Indicators[i]) \notin world.exists

\* the listing of the recent store fails or prints nothing
RecentStoreEmptyOrUnreadable ==
    ~world.lsRecent.ok \/ Trim(world.lsRecent.stdout) = <<>>

\* C1: a resolution of the active workspace never throws and returns a path,
\* whatever the signal readers did; when neither the index, nor an indicator,
\* nor the recent store gives a path, the path returned is the current directory.
C1_ResolveNeverFails ==
    ResolutionCall =>
        /\ ~ret.threw
        /\ ret.path # <<>>
        /\ (~IndexStepSucceeds /\ ~IndicatorStepSucceeds /\ ~RecentStepSucceeds)
               => ret.path = world.cwd

\* C1, its case: every command fails, and the resolution returned the current directory
C1_Witness ==
    /\ ResolutionCall
    /\ ~world.wmctrl.ok /\ ~world.status.ok /\ ~world.lsRecent.ok
    /\ ~IndicatorStepSucceeds
    /\ ~ret.threw
    /\ ret.path = world.cwd

\* C2: a listing of the open workspaces never throws, even when the window
\* enumeration and the status command both fail.  The code lets the failure of
\* `code --status` leave parseVSCodeStatusSlow and getAllWorkspaces rethrows it.
C2_ListNeverFails == Listed => ~ret.threw

\* C3: a listing made less than CACHE_DURATION after a listing that built the
\* index returns the same data and invokes no signal reader, whichever path
\* built it.  The code stores the fast path's result alone.
C3_CachedWithinTTL ==
    [][(/\ Listed /\ ~ret.threw /\ ~ret.served
        /\ now - ret.at < CACHE_DURATION
        /\ GetAllWorkspaces)
          => (ret'.probes = <<>> /\ ~ret'.threw /\ ret'.workspaces = ret.workspaces)]_vars

\* C4: when the current directory is a candidate's path or below it, the
\* resolution returns that candidate's path, whatever the order of the index.
\* The code takes the first candidate whose path is a textual prefix.
C4_DescendantCandidate ==
    (ResolutionCall /\ ret.index.built) =>
        \A i \in 1..Len(ret.index.data) :
            IsWithin(world.cwd, ret.index.data[i].path) => ret.path = ret.index.data[i].path

\* C5: with an empty index, no indicator from the current directory up to the
\* root, and a recent store that is empty or unreadable, the resolution returns
\* the current directory exactly.
C5_FallsBackToCwd ==
    (/\ ResolutionCall
     /\ ~IndexStepSucceeds
     /\ NoIndicatorOnPath
     /\ RecentStoreEmptyOrUnreadable)
        => (~ret.threw /\ ret.path = world.cwd)

\* C5, its case: the listing gave an empty index, the recent store printed
\* nothing, and the current directory came back
C5_Witness ==
    /\ ResolutionCall
    /\ ret.index.built /\ ret.index.data = <<>>
    /\ NoIndicatorOnPath
    /\ world.lsRecent.ok /\ Trim(world.lsRecent.stdout) = <<>>
    /\ ret.path = world.cwd

\* C6: no index a call obtains holds two entries with the same path.  The code
\* pushes one entry per accepted store record and per folder line.
C6_NoDuplicatePath ==
    ret.index.built =>
        \A i, j \in 1..Len(ret.index.data) :
            ret.index.data[i].path = ret.index.data[j].path => i = j

\* C7: a lookup by name that matches no entry of the index ends with the
\* 'not found' error, which carries the names of all entries in index order.
C7_NotFoundCarriesNames ==
    (IsNamedLookup /\ ret.index.built /\ LookupHits = {}) =>
        /\ NotFoundOutcome
        /\ ret.error.name = ret.name
        /\ ret.error.available = [i \in 1..Len(ret.index.data) |-> ret.index.data[i].name]

\* C7, its case: a lookup against an index of two different names found nothing
C7_Witness ==
    /\ IsNamedLookup /\ ret.index.built /\ LookupHits = {}
    /\ Len(ret.index.data) = 2
    /\ ret.index.data[1].name # ret.index.data[2].name
    /\ NotFoundOutcome
    /\ Len(ret.error.available) = 2

\* C8: a lookup by name finds an entry exactly when some entry's name and the
\* requested name are case-insensitive substrings of one another in either
\* direction, and the entry it goes on with is the first such entry.
C8_LookupFindsFirstMatch ==
    (IsNamedLookup /\ ret.index.built) =>
        /\ LookupHits = {} <=> NotFoundOutcome
        /\ LookupHits = {} <=> ~ret.target.found
        /\ LookupHits # {} =>
               LET first == CHOOSE i \in LookupHits : \A j \in LookupHits : i <= j
               IN  /\ ret.target.name = ret.index.data[first].name
                   /\ ret.target.path = ret.index.data[first].path

\* C8, its case: the requested name is longer than the name of the entry found and
\* differs from it in case, and a later entry matches as well
C8_Witness ==
    /\ IsNamedLookup /\ ret.index.built
    /\ Cardinality(LookupHits) = 2
    /\ ret.target.found
    /\ Len(ret.name) > Len(ret.target.name)
    /\ ~OccursIn(ret.target.name, ret.name)

\* C9: a call is served from the cache only when the entry is younger than 5000
\* ms, and a call that finds an entry aged 5000 ms or more builds the index anew.
C9_ServedOnlyWhileFresh ==
    ret.op # "none" =>
        /\ ret.served => (0 <= ret.age /\ ret.age < 5000)
        /\ ret.age >= 5000 => (~ret.served /\ ret.probes # <<>>)

\* C9, its case: a call found an entry aged exactly 5000 ms and built the index anew
C9_Witness == ret.op # "none" /\ ret.age = 5000 /\ ~ret.served /\ ret.probes # <<>>

\* C10: with a non-empty index and a current directory that is neither a
\* candidate's path nor below one, the resolution returns the first candidate.
\* The code's textual prefix test picks a later candidate (see C4).
C10_FirstCandidate ==
    (/\ ResolutionCall /\ ret.index.built /\ ret.index.data # <<>>
     /\ \A i \in 1..Len(ret.index.data) : ~IsWithin(world.cwd, ret.index.data[i].path))
        => ret.path = ret.index.data[1].path

\* the window listing of the world shows no workspace name: it fails, or it
\* runs and lists no editor window
NothingDisplayed ==
    ~world.wmctrl.ok \/ WindowWorkspaceNames(world.wmctrl.stdout) = <<>>

\* C11: whenever the window listing gives no displayed name, because it fails
\* or because it lists no editor window, a build goes to the slow path: the
\* status command is run and the index is what its folder lines resolve to.
\* The code goes to the slow path only when a fast command throws.
C11_NothingDisplayedGoesSlow ==
    (ret.op # "none" /\ ~ret.served /\ NothingDisplayed) =>
        /\ Contains(ret.probes, "status")
        /\ world.status.ok =>
               (ret.index.built
                /\ ret.index.data = parseVSCodeStatus(world, world.status.stdout))

\* the workspace names the window listing of the world displays, in order
DisplayedNames ==
    IF world.wmctrl.ok THEN WindowWorkspaceNames(world.wmctrl.stdout) ELSE <<>>

\* the position of the first displayed name that a candidate's name matches
DisplayRank(name) ==
    LET ks == {k \in 1..Len(DisplayedNames) : SubstringEitherWay(DisplayedNames[k], name)}
    IN  IF ks = {} THEN 0 ELSE CHOOSE k \in ks : \A l \in ks : k <= l

\* the last call built the index on the fast path
FastBuilt == ret.op # "none" /\ ~ret.served /\ ret.index.built /\ ~Contains(ret.probes, "status")

\* C12: an index built on the fast path lists its candidates in the order of the
\* displayed names they were correlated with, whatever the order of the store
\* listing.  The code iterates over the store files and pushes in their order.
C12_DisplayedOrder ==
    FastBuilt =>
        \A i, j \in 1..Len(ret.index.data) :
            i < j => DisplayRank(ret.index.data[i].name) <= DisplayRank(ret.index.data[j].name)

\* the title parser was applied to the title made of ret.fragments
TitleParsed == ret.op = "extractWorkspaceFromTitle"

ActiveAtCall == getActiveVSCodeWorkspace(world, workspaceCache, ret.at).path

\* C14: a search runs over the resolved active workspace: its root is the path a
\* resolution returns at the time of the search, also when the process was
\* started outside that workspace.  The code searches in this.workspaceRoot,
\* the directory the process was started in.
C14_SearchRootIsActive ==
    ret.op = "searchWorkspace" => ret.root = ActiveAtCall

\* C15: selectFileInExplorer resolves a relative path against the active
\* workspace, never against the current directory: a relative path that does not
\* exist under the active workspace ends in 'File does not exist' with no editor
\* command issued, and one that exists there is the path handed to the editor.
C15_SelectAgainstActive ==
    (ret.op = "selectFileInExplorer" /\ ~StartsWith(ret.name, Slash)) =>
        /\ ret.path = ActiveAtCall
        /\ IF PathResolve(ActiveAtCall, ret.name) \in world.exists
           THEN ret.commands = <<Command("code", PathResolve(ActiveAtCall, ret.name))>>
           ELSE /\ ret.threw
                /\ ret.error.message = "File does not exist"
                /\ ret.commands = <<>>

\* C15, its case: the file exists relative to the current directory and not under
\* the active workspace, which is another directory; the call failed and issued
\* no command
C15_Witness ==
    /\ ret.op = "selectFileInExplorer"
    /\ ~StartsWith(ret.name, Slash)
    /\ ActiveAtCall # world.cwd
    /\ PathResolve(world.cwd, ret.name) \in world.exists
    /\ PathResolve(ActiveAtCall, ret.name) \notin world.exists
    /\ ret.threw /\ ret.error.message = "File does not exist"
    /\ ret.commands = <<>>

\* the `workspace` command was run with no action and no flag but, possibly, --json
BareWorkspaceRun ==
    /\ ret.argv.action = ""
    /\ ~ret.argv.active /\ ~ret.argv.list /\ ret.argv.get = <<>>
    /\ ret.exit # -1

\* C16: the `workspace` command run with no action argument and no flags shows
\* the current active workspace (with --json, an object holding its path) and
\* exits with status 0
C16_BareWorkspaceShowsActive ==
    BareWorkspaceRun =>
        /\ ret.exit = 0
        /\ ret.printed = (IF ret.argv.json THEN "activeWorkspace json" ELSE "active workspace")
        /\ ret.path = ActiveAtCall

\* the controller operation each documented tool stands for
OperationOf ==
    [name \in {ToolList[i] : i \in 1..Len(ToolList)} |->
        CASE name = "open_file" -> "openFile"
          [] name = "run_terminal_command" -> "runTerminalCommand"
          [] name = "create_file" -> "createFile"
          [] name = "search_workspace" -> "searchWorkspace"
          [] name = "reveal_in_explorer" -> "revealInExplorer"
          [] name = "focus_explorer" -> "focusExplorer"
          [] name = "select_file_in_explorer" -> "selectFileInExplorer"]

\* C17: the tool listing names exactly the seven documented tools, a call of a
\* listed tool runs its controller operation, and a call of any other name is
\* rejected with 'Unknown tool' and runs no controller operation
C17_ToolsListedAndDispatched ==
    /\ ret.op = "ListTools" =>
           /\ Len(ret.tools) = 7
           /\ {ret.tools[i] : i \in 1..Len(ret.tools)} = DOMAIN OperationOf
    /\ ret.request # NoRequest =>
           IF ret.request.name \in DOMAIN OperationOf
           THEN ret.op = OperationOf[ret.request.name]
           ELSE ret.op = "CallTool" /\ ret.threw /\ ret.error.message = "Unknown tool"

\* the call is between its first await and its return
Building(c) == calls[c].pc \in {"wmctrl", "ls", "readFile", "access"}

\* the array the slot refers to is the finished index of the machine
SlotComplete ==
    workspaceCache.present =>
        /\ slotArray \in 1..Len(arrays)
        /\ workspaceCache.data = arrays[slotArray]
        /\ arrays[slotArray] = FastIndex(world)

\* C18: under every interleaving of overlapping listings, the cache slot holds
\* only the complete result of a finished build, the array a build is still
\* appending to is not the array of the slot (nor of another build), and a call
\* served from the slot gets a complete index
C18_SlotHoldsFinishedBuilds ==
    /\ SlotComplete
    /\ \A c \in Callers : Building(c) => calls[c].array # slotArray
    /\ \A c, d \in Callers : Building(c) /\ Building(d) /\ c # d
                                 => calls[c].array # calls[d].array
    /\ \A c \in Callers : calls[c].pc = "returned" /\ calls[c].served
                              => arrays[calls[c].result] = FastIndex(world)

\* one call is served from the slot while another is in the middle of its
\* build, with some but not all entries pushed
C18_Witness ==
    \E c, d \in Callers :
        /\ calls[c].pc = "returned" /\ calls[c].served
        /\ Building(d)
        /\ arrays[calls[d].array] # <<>>
        /\ arrays[calls[d].array] # FastIndex(world)
        /\ workspaceCache.present

\* dir holds a project indicator: one of the seven names exists in it, the
\* home directory's .vscode counting only with a settings.json that parses to
\* an object with at least one key
HasSettings ==
    /\ PathJoin(PathJoin(HomeDir(world), DotVSCode), SettingsJson) \in world.exists
    /\ world.settings.parses
    /\ world.settings.keys >= 1
HasIndicator(dir) ==
    \E i \in 1..Len(Indicators) :
        /\ PathJoin(dir, Indicators[i]) \in world.exists
        /\ (Indicators[i] = DotVSCode /\ dir = HomeDir(world)) => HasSettings

\* the directories of the walk that hold an indicator, and the one of them
\* nearest to the current directory
IndicatorDirs == {d \in Ancestors(world.cwd) : HasIndicator(d)}
NearestIndicatorDir == CHOOSE d \in IndicatorDirs : \A e \in IndicatorDirs : Len(e) <= Len(d)

\* C19: when the index is empty, the resolution returns the directory nearest to
\* the current directory, on the way up to the root, that holds an indicator;
\* the recent store or the current directory decide only when no directory on
\* the way holds one
C19_NearestIndicatorDir ==
    (ResolutionCall /\ ~IndexStepSucceeds) =>
        IF IndicatorDirs # {}
        THEN ret.method = "indicator" /\ ret.path = NearestIndicatorDir
        ELSE ret.method \in {"recent", "cwd"}

\* C19, its case: two directories on the way up hold an indicator, the recent
\* store has a usable record, and the nearer directory came back
C19_Witness ==
    /\ ResolutionCall
    /\ ret.index.built /\ ret.index.data = <<>>
    /\ Cardinality(IndicatorDirs) >= 2
    /\ RecentStepSucceeds
    /\ ret.method = "indicator"
    /\ ret.path = NearestIndicatorDir
    /\ ret.path # world.cwd

\* the home directory is on the way up, holds .vscode and none of the other
\* six indicators, and no directory nearer to the current directory holds one
HomeReachedWithVSCodeOnly ==
    /\ HomeDir(world) \in Ancestors(world.cwd)
    /\ PathJoin(HomeDir(world), DotVSCode) \in world.exists
    /\ \A i \in 1..Len(Indicators) :
           Indicators[i] # DotVSCode => PathJoin(HomeDir(world), Indicators[i]) \notin world.exists
    /\ \A d \in IndicatorDirs : Len(d) <= Len(HomeDir(world))

\* C20: when the walk reaches a home directory whose only indicator is .vscode,
\* the home directory is returned exactly if its settings.json exists and parses
\* to an object with at least one key; otherwise the walk goes on at the parent:
\* a parent holding an indicator is returned, and with none the recent store
\* or the current directory decide
C20_HomeVSCodeNeedsSettings ==
    (ResolutionCall /\ ~IndexStepSucceeds /\ HomeReachedWithVSCodeOnly) =>
        IF HasSettings
        THEN ret.method = "indicator" /\ ret.path = HomeDir(world)
        ELSE IF HasIndicator(Dirname(HomeDir(world)))
        THEN ret.method = "indicator" /\ ret.path = Dirname(HomeDir(world))
        ELSE ret.method \in {"recent", "cwd"}

\* C20, its case: the home directory holds .vscode with a settings.json that
\* parses to an empty object, its parent holds .git, and the parent came back
C20_Witness ==
    /\ ResolutionCall /\ ~IndexStepSucceeds /\ HomeReachedWithVSCodeOnly
    /\ PathJoin(PathJoin(HomeDir(world), DotVSCode), SettingsJson) \in world.exists
    /\ world.settings.parses /\ world.settings.keys = 0
    /\ ret.method = "indicator"
    /\ ret.path = Dirname(HomeDir(world))

\* the store files `ls -t` printed, newest first, and whether the file at
\* position k holds a folder record whose path exists
RecentListed ==
    IF world.lsRecent.ok THEN Split(Trim(world.lsRecent.stdout), Newline) ELSE <<>>
RecentQualifies(k) ==
    /\ ParseRecord(ReadRecord(RecentListed[k])).ok
    /\ ParseRecord(ReadRecord(RecentListed[k])).path \in world.exists
NewestThree == {k \in 1..Len(RecentListed) : k <= 3}

\* the resolution got past the index and the indicator walk
RecentStepReached == ResolutionCall /\ ~IndexStepSucceeds /\ IndicatorDirs = {}

\* C21: in the recent-store step only the three newest store files count, newest
\* first: the path of the first of them that holds a folder record whose path
\* exists is returned; when none of the three does, the current directory is
\* returned, whatever the fourth and older files hold
C21_NewestThreeOnly ==
    RecentStepReached =>
        IF \E k \in NewestThree : RecentQualifies(k)
        THEN /\ ret.method = "recent"
             /\ \E k \in NewestThree :
                    /\ RecentQualifies(k)
                    /\ \A j \in 1..(k - 1) : ~RecentQualifies(j)
                    /\ ret.path = ParseRecord(ReadRecord(RecentListed[k])).path
        ELSE ret.method = "cwd" /\ ret.path = world.cwd

\* C21, its case: the fourth newest file holds a usable record, none of the three
\* newest does, and the current directory came back
C21_Witness ==
    /\ RecentStepReached
    /\ Len(RecentListed) >= 4
    /\ RecentQualifies(4)
    /\ \A k \in NewestThree : ~RecentQualifies(k)
    /\ ret.method = "cwd" /\ ret.path = world.cwd

\* the index the last call obtained was built by the fast path, by this call
\* or by the one that filled the cache
FastIndexObtained == ret.op # "none" /\ ret.index.built /\ ~Contains(ret.probes, "status")

\* the store files the fast path lists, and the record of the file at position k
StoreListed ==
    IF world.lsStore.ok /\ Trim(world.lsStore.stdout) # <<>>
    THEN Split(Trim(world.lsStore.stdout), Newline) ELSE <<>>
StoreRecord(k) == ParseRecord(ReadRecord(StoreListed[k]))

\* C22: every entry of an index built by the fast path is the name and path of
\* a listed store record whose name matches a displayed window name (one a
\* substring of the other, case ignored) and whose path exists; a record that
\* matches no displayed name, or whose path does not exist, is not in the index
C22_AcceptedMatchAndExist ==
    FastIndexObtained =>
        /\ \A i \in 1..Len(ret.index.data) :
               \E k \in 1..Len(StoreListed) :
                   /\ StoreRecord(k).ok
                   /\ StoreRecord(k).name = ret.index.data[i].name
                   /\ StoreRecord(k).path = ret.index.data[i].path
                   /\ DisplayRank(StoreRecord(k).name) # 0
                   /\ StoreRecord(k).path \in world.exists
        /\ \A k \in 1..Len(StoreListed) :
               (StoreRecord(k).ok /\ (DisplayRank(StoreRecord(k).name) = 0
                                      \/ StoreRecord(k).path \notin world.exists))
                   => \A i \in 1..Len(ret.index.data) :
                          ret.index.data[i].path # StoreRecord(k).path

\* C22, its case: a listing with a record that is accepted and a record that
\* matches a displayed name but whose path is gone, which is left out
C22_Witness ==
    /\ FastIndexObtained
    /\ ret.index.data # <<>>
    /\ \E k \in 1..Len(StoreListed) :
           /\ StoreRecord(k).ok
           /\ DisplayRank(StoreRecord(k).name) # 0
           /\ StoreRecord(k).path \notin world.exists

\* the lines of the status text, and the folder names of the lines that match
\* `Folder (<name>):` and stand after a line holding the marker
StatusLines == IF world.status.ok THEN Split(world.status.stdout, Newline) ELSE <<>>
HasMarker(k) == OccursIn(WorkspaceStatsMarker, StatusLines[k])
SectionFolders ==
    {FolderMatch(StatusLines[k]).value :
        k \in {l \in 1..Len(StatusLines) :
                  /\ ~HasMarker(l)
                  /\ FolderMatch(StatusLines[l]).found
                  /\ \E m \in 1..(l - 1) : HasMarker(m)}}

\* the last call built the index on the slow path
SlowBuilt == ret.op # "none" /\ ret.index.built /\ Contains(ret.probes, "status")

\* the store files `find` printed, and the record of the file at position k
FindListed ==
    IF world.find.ok THEN Split(Trim(world.find.stdout), Newline) ELSE <<>>
FindRecord(k) == ParseRecord(ReadRecord(FindListed[k]))

\* a file that cannot be read or parsed, or that holds no file:// folder
BadRecordBefore(listed, k) == \E j \in 1..(k - 1) : ~ParseRecord(ReadRecord(listed[j])).ok

\* C23: a store file that is malformed, unreadable or holds no folder is skipped
\* by itself and the files listed after it are still examined: in an index built
\* by the fast path every listed record that matches a displayed name and
\* exists has its entry; in an index built by the slow path an entry whose name
\* is that of an existing store record has the path of the first such record;
\* and the recent-store step returns the first usable record of the three
\* newest files, wherever the bad files stand
C23_BadRecordSkippedAlone ==
    /\ FastIndexObtained =>
           \A k \in 1..Len(StoreListed) :
               (/\ StoreRecord(k).ok
                /\ DisplayRank(StoreRecord(k).name) # 0
                /\ StoreRecord(k).path \in world.exists)
                   => \E i \in 1..Len(ret.index.data) :
                          ret.index.data[i].path = StoreRecord(k).path
    /\ SlowBuilt =>
           \A i \in 1..Len(ret.index.data) :
               \A k \in 1..Len(FindListed) :
                   (/\ FindRecord(k).ok
                    /\ FindRecord(k).name = ret.index.data[i].name
                    /\ FindRecord(k).path \in world.exists
                    /\ \A j \in 1..(k - 1) :
                           ~(/\ FindRecord(j).ok
                             /\ FindRecord(j).name = ret.index.data[i].name
                             /\ FindRecord(j).path \in world.exists))
                       => ret.index.data[i].path = FindRecord(k).path
    /\ SlowBuilt =>
           \A k \in 1..Len(FindListed) :
               (/\ FindRecord(k).ok /\ FindRecord(k).path \in world.exists
                /\ FindRecord(k).name \in SectionFolders)
                   => \E i \in 1..Len(ret.index.data) :
                          ret.index.data[i].name = FindRecord(k).name
    /\ RecentStepReached =>
           \A k \in NewestThree :
               (RecentQualifies(k) /\ \A j \in 1..(k - 1) : ~RecentQualifies(j))
                   => ret.path = ParseRecord(ReadRecord(RecentListed[k])).path

\* C23, its case: the slow path resolved a name through a store record that is
\* listed after a malformed file and a file without a file:// folder, and that
\* no search pattern would have found
C23_Witness ==
    /\ SlowBuilt
    /\ \E i \in 1..Len(ret.index.data) :
           \E k \in 1..Len(FindListed) :
               /\ FindRecord(k).ok
               /\ FindRecord(k).path = ret.index.data[i].path
               /\ BadRecordBefore(FindListed, k)
               /\ ~StartsWith(FindRecord(k).path, DefaultHome)

\* the parser was applied to the text made of ret.lines
StatusParsed == ret.op = "parseVSCodeStatus"

\* the positions of ret.lines that hold the marker, and those of the lines that
\* match `Folder (<name>):`, hold no marker and stand after a marker line
MarkerLines == {k \in 1..Len(ret.lines) : OccursIn(WorkspaceStatsMarker, ret.lines[k])}
FolderLinesInSection ==
    {k \in 1..Len(ret.lines) :
        /\ k \notin MarkerLines
        /\ FolderMatch(ret.lines[k]).found
        /\ \E m \in MarkerLines : m < k}

\* C24: every name the status-line parser yields is the name of a line that
\* matches `Folder (<name>):` and stands after a line holding 'Workspace Stats:';
\* folder lines before the marker, or in a text without the marker, yield
\* nothing; and every folder line of the section whose name resolves to a path
\* yields its name
C24_FoldersOnlyAfterMarker ==
    StatusParsed =>
        /\ \A i \in 1..Len(ret.workspaces) :
               \E k \in FolderLinesInSection :
                   FolderMatch(ret.lines[k]).value = ret.workspaces[i].name
        /\ MarkerLines = {} => ret.workspaces = <<>>
        /\ Len(ret.workspaces) =
               Cardinality({k \in FolderLinesInSection :
                               findWorkspacePathByName(world,
                                                       FolderMatch(ret.lines[k]).value).found})

\* C24, its case: a folder line before the marker and another after it; only
\* the second yields its name
C24_Witness ==
    /\ StatusParsed
    /\ \E k \in 1..Len(ret.lines) :
           /\ FolderMatch(ret.lines[k]).found
           /\ FolderMatch(ret.lines[k]).value = NameP
           /\ \A m \in MarkerLines : k < m
    /\ Len(ret.workspaces) = 1
    /\ ret.workspaces[1].name = NameP1

\* the name resolution was applied to ret.name
NameResolved == ret.op = "findWorkspacePathByName"

\* the positions of the files `find` printed whose record has the name as its
\* last path segment and a path that exists
StoreHits(name) ==
    {k \in 1..Len(FindListed) :
        /\ FindRecord(k).ok
        /\ FindRecord(k).name = name
        /\ FindRecord(k).path \in world.exists}

\* the search patterns, in their order, that list something for the name
PatternHits(name) ==
    {i \in 1..3 : GlobMatches(world, SearchPatterns(name)[i]) # {}}
Least(S) == CHOOSE x \in S : \A y \in S : x <= y
ProbesUpTo(i) == <<"find">> \o [j \in 1..i |-> PatternProbe(j)]

\* C25: the slow-path name resolution runs the store search first and returns
\* the path of the first store record whose last segment is the name and whose
\* path exists, probing no pattern; only without such a record are the patterns
\* probed, in their fixed order up to the first that lists a path; a name found
\* by neither resolves to nothing, and the status-line parser then leaves it
\* out of the index and returns normally
C25_StoreThenPatterns ==
    /\ NameResolved =>
           IF StoreHits(ret.name) # {}
           THEN /\ ret.resolved.found
                /\ ret.resolved.value = FindRecord(Least(StoreHits(ret.name))).path
                /\ ret.resolved.probed = <<"find">>
           ELSE IF PatternHits(ret.name) # {}
           THEN /\ ret.resolved.found
                /\ ret.resolved.value
                       \in GlobMatches(world, SearchPatterns(ret.name)[Least(PatternHits(ret.name))])
                /\ ret.resolved.probed = ProbesUpTo(Least(PatternHits(ret.name)))
           ELSE ~ret.resolved.found /\ ret.resolved.probed = ProbesUpTo(3)
    /\ StatusParsed =>
           /\ ~ret.threw
           /\ \A k \in FolderLinesInSection :
                  (/\ StoreHits(FolderMatch(ret.lines[k]).value) = {}
                   /\ PatternHits(FolderMatch(ret.lines[k]).value) = {})
                      => \A i \in 1..Len(ret.workspaces) :
                             ret.workspaces[i].name # FolderMatch(ret.lines[k]).value

\* C25, its case: a store record and a search pattern both lead to a path for
\* the name, to different paths, and the store's path came back with no pattern
\* probed
C25_Witness ==
    /\ NameResolved
    /\ StoreHits(ret.name) # {}
    /\ PatternHits(ret.name) # {}
    /\ ret.resolved.value
           \notin UNION {GlobMatches(world, SearchPatterns(ret.name)[i]) : i \in 1..3}
    /\ ret.resolved.probed = <<"find">>

\* the paths of the entries of the index the call obtained
IndexPaths == {ret.index.data[i].path : i \in 1..Len(ret.index.data)}

\* C26: when the index a resolution obtained is non-empty, the returned path is
\* the path of one of its entries and was chosen from the index; the indicator
\* walk, the recent store and the current directory answer only when the index
\* is empty or building it failed
C26_NonEmptyIndexAnswers ==
    ResolutionCall =>
        /\ ~ret.threw
        /\ (ret.index.built /\ Len(ret.index.data) > 0)
               => ret.method = "index" /\ ret.path \in IndexPaths
        /\ ret.method \in {"indicator", "recent", "cwd"}
               => ~ret.index.built \/ Len(ret.index.data) = 0

\* C26, its case: the index has two entries, the current directory lies below
\* the second one without being it, and an indicator sits in the current
\* directory; the second entry's path is returned
C26_Witness ==
    /\ ResolutionCall
    /\ Len(ret.index.data) = 2
    /\ ret.path = ret.index.data[2].path
    /\ ret.path # world.cwd
    /\ HasIndicator(world.cwd)

\* focusWorkspace() was called without a name
FocusActiveCall == ret.op = "focusWorkspace" /\ ret.name = <<>>
\* the paths of the entries of the list read second
SecondPaths == {ret.second.data[i].path : i \in 1..Len(ret.second.data)}
\* the active path came from the indicator walk, the recent store or the
\* current directory
FromFallback == ~(ret.index.built /\ Len(ret.index.data) > 0)
FocusFailedWith(message) ==
    /\ ret.threw
    /\ ret.error = Rethrow("Failed to focus workspace", Error(message))
    /\ ret.commands = <<>>
CouldNotFindActive == FocusFailedWith("Could not find active workspace in open workspaces list")

MissingArguments ==
    /\ ret.op = "CallTool"
    /\ ret.threw
    /\ ret.error.message = "Missing arguments"
    /\ ret.commands = <<>>

\* C28: a tool call whose request has no arguments object is rejected with
\* 'Missing arguments' whatever its tool name is, listed or not, focus_explorer
\* included; no controller operation runs: no command is issued, no file is
\* created and the cache slot is left as it was
C28_MissingArgumentsFirst ==
    [][(ret'.request # NoRequest /\ ~ret'.request.arguments)
          => /\ MissingArguments'
             /\ world' = world
             /\ workspaceCache' = workspaceCache]_vars

\* C28, its case: focus_explorer was called without an arguments object and
\* was rejected
C28_Witness ==
    /\ ret.request # NoRequest
    /\ ret.request.name = "focus_explorer"
    /\ ~ret.request.arguments
    /\ MissingArguments

\* searchWorkspace was called for content; ret.runs = what rg and grep did
ContentSearch == ret.op = "searchWorkspace" /\ ret.runs # <<>>
ToolAvailable(i) == ret.runs[i] # "unavailable"

\* C29: a content search runs rg first and grep only when the rg invocation
\* failed; it fails, with 'Neither ripgrep nor grep available for content
\* search', only when neither tool is available, and a query without a matching
\* line returns an empty output when a tool is available.  The code takes every
\* rejected invocation, the exit status 1 of a search without a match included,
\* for a missing tool.
C29_FailsOnlyWithoutTools ==
    ContentSearch =>
        /\ ret.commands[1] = Command("rg", ret.name)
        /\ Len(ret.commands) = (IF ret.runs[1] = "matches" THEN 1 ELSE 2)
        /\ Len(ret.commands) = 2 => ret.commands[2] = Command("grep", ret.name)
        /\ ret.threw <=> (~ToolAvailable(1) /\ ~ToolAvailable(2))
        /\ ret.threw =>
               ret.error.message = "Neither ripgrep nor grep available for content search"
        /\ ((ToolAvailable(1) \/ ToolAvailable(2))
              /\ ret.runs[1] # "matches" /\ ret.runs[2] # "matches")
               => ~ret.threw /\ ret.output = <<>>

\* the walk of c leaves what the selector's fallbacks give in one piece
WalkAgrees ==
    \A c \in Walkers :
        calls[c].pc = "returned" => calls[c].selected = SelectWithoutIndex(world)

\* C30: the indicator walk terminates from every starting directory: a pass of
\* the loop either returns the directory it tested or goes on with the strict
\* parent, a shorter path; the loop is left for the recent-store step only at
\* the root, whose indicators are never tested; and a walk under way always
\* comes to return a directory or to the recent-store step, which then returns
C30_WalkTerminates ==
    /\ [](\A c \in Walkers :
             \A k \in 1..Len(calls[c].inspected) : calls[c].inspected[k] # RootDir)
    /\ [][\A c \in Walkers :
             calls[c].pc = "while" =>
                 \/ /\ calls'[c].pc = "while"
                    /\ calls'[c].currentDir = Dirname(calls[c].currentDir)
                    /\ Len(calls'[c].currentDir) < Len(calls[c].currentDir)
                    /\ StartsWith(calls[c].currentDir, calls'[c].currentDir)
                 \/ /\ calls'[c].pc = "returned"
                    /\ calls'[c].selected = Selected(calls[c].currentDir, "indicator")
                 \/ /\ calls'[c].pc = "recent"
                    /\ calls[c].currentDir = RootDir]_vars
    /\ \A c \in Walkers : (calls[c].pc = "while") ~> (calls[c].pc \in {"recent", "returned"})
    /\ \A c \in Walkers : (calls[c].pc = "recent") ~> (calls[c].pc = "returned")

\* C30, its case: a walk begun four directories deep, on a machine whose root
\* holds an indicator, tested every directory on the way but the root, and
\* stands at the recent-store step
C30_Witness ==
    \E c \in Walkers :
        /\ calls[c].pc = "recent"
        /\ calls[c].currentDir = RootDir
        /\ Len(calls[c].inspected) = 4
        /\ GitAtRoot \in world.exists

====
